---------------------------- MODULE Spec2Model ----------------------------
(***************************************************************************)
(* Warehouse co-placement recommender: the pipeline of                     *)
(* src/Recomendation (MarketBasketAnalyzer, SimilarityCalculator,          *)
(* ClusteringAnalyzer, RecommendationGenerator) and the orchestrator       *)
(* WarehouseRecommendationSystem that holds one instance of each.          *)
(*                                                                         *)
(* Products (StockCode) and orders (InvoiceNo) are small integers; their   *)
(* integer order stands for the string order that sorted() uses.           *)
(* Similarities under jaccard and lift are exact rationals [n, d]; the     *)
(* cosine metric is computed in binary64 arithmetic (see the section on    *)
(* cosine below), because its rounding is visible in the result.           *)
(***************************************************************************)
EXTENDS Integers, Sequences, FiniteSets, TLC

VARIABLES
    df,                  \* WarehouseRecommendationSystem.df
    product_info,        \* WarehouseRecommendationSystem.product_info
    rg_product_info,     \* RecommendationGenerator.product_info
    basket_matrix,       \* MarketBasketAnalyzer.basket_matrix
    frequent_products,   \* MarketBasketAnalyzer.frequent_products
    sc_basket_matrix,    \* SimilarityCalculator.basket_matrix
    similarity_matrix,   \* SimilarityCalculator.similarity_matrix
    clusters,            \* ClusteringAnalyzer.clusters
    ca_similarity_matrix,\* ClusteringAnalyzer.similarity_matrix
    ca_product_info,     \* ClusteringAnalyzer.product_info
    db_saved,            \* calls received by DatabaseHandler.save_recommendations_to_db
    result,              \* outcome of the last call: what it returned or that it raised
    input,               \* arguments drawn for a call on one component, None otherwise
    handlers,            \* app.py: the HTTP requests in flight, each with its parameters,
                         \* the position of its handler and its response
    running              \* app.py: the request whose handler the event loop is running

vars == <<df, product_info, rg_product_info, basket_matrix, frequent_products,
          sc_basket_matrix, similarity_matrix, clusters, ca_similarity_matrix,
          ca_product_info, db_saved, result, input, handlers, running>>

\* Optional values: None is <<>>, a present value v is <<v>>.
None == <<>>
Some(v) == <<v>>
Val(x) == x[1]

-----------------------------------------------------------------------------
(* Bounds of the model.                                                    *)

MaxProducts == 3     \* StockCodes of the generated transaction tables
MaxOrders == 2       \* InvoiceNos of the generated transaction tables
MaxLineItems == 4    \* rows of a generated transaction table
MaxQuantity == 1     \* Quantity of a generated line item
MaxSupport == 3      \* min_support values tried: 1..MaxSupport
MaxMatrixColumns == 2   \* columns of a generated basket matrix
MaxMatrixRows == 3      \* rows of a generated basket matrix

-----------------------------------------------------------------------------
(* Small helpers: sequences, sorting, rationals.                           *)

Range(s) == {s[i] : i \in DOMAIN s}

Min(S) == CHOOSE x \in S : \A y \in S : x <= y
Max(S) == CHOOSE x \in S : \A y \in S : y <= x

RECURSIVE SortedSeq(_)
SortedSeq(S) == IF S = {} THEN <<>> ELSE <<Min(S)>> \o SortedSeq(S \ {Min(S)})

RECURSIVE SumSeq(_)
SumSeq(s) == IF s = <<>> THEN 0 ELSE Head(s) + SumSeq(Tail(s))

RECURSIVE SeqsUpTo(_, _)
SeqsUpTo(S, n) ==
    IF n = 0 THEN {<<>>}
    ELSE LET shorter == SeqsUpTo(S, n - 1)
         IN  shorter \cup {Append(s, x) : s \in {t \in shorter : Len(t) = n - 1}, x \in S}

RECURSIVE GCD(_, _)
GCD(a, b) == IF b = 0 THEN a ELSE GCD(b, a % b)

Abs(x) == IF x < 0 THEN -x ELSE x

\* The rational n/d in lowest terms, d > 0.
Q(n, d) ==
    LET g == GCD(Abs(n), Abs(d))
        s == IF d < 0 THEN -1 ELSE 1
    IN  [n |-> (s * n) \div g, d |-> (s * d) \div g]

QZero == [n |-> 0, d |-> 1]
QOne == [n |-> 1, d |-> 1]
QAdd(a, b) == Q(a.n * b.d + b.n * a.d, a.d * b.d)
QSub(a, b) == Q(a.n * b.d - b.n * a.d, a.d * b.d)
QMul(a, b) == Q(a.n * b.n, a.d * b.d)
QDiv(a, b) == Q(a.n * b.d, a.d * b.n)
QLess(a, b) == a.n * b.d < b.n * a.d
QLeq(a, b) == a.n * b.d <= b.n * a.d
QMin(a, b) == IF QLeq(a, b) THEN a ELSE b
QMax(a, b) == IF QLeq(a, b) THEN b ELSE a

RECURSIVE QSum(_)
QSum(s) == IF s = <<>> THEN QZero ELSE QAdd(Head(s), QSum(Tail(s)))

-----------------------------------------------------------------------------
(* Transaction tables: what DatabaseHandler.load_data returns after        *)
(* _clean_data, one record per line item, Quantity > 0.                    *)

LineItems ==
    [InvoiceNo : 1..MaxOrders, StockCode : 1..MaxProducts, Quantity : 1..MaxQuantity]

GeneratedTables == SeqsUpTo(LineItems, MaxLineItems) \ {<<>>}

\* DatabaseHandler.create_product_info: groupby('StockCode') with
\* Description first, Quantity sum, InvoiceNo nunique; one row per StockCode,
\* in key order.
create_product_info(d) ==
    LET codes == SortedSeq({d[i].StockCode : i \in DOMAIN d})
        rowsOf(p) == SelectSeq(d, LAMBDA r : r.StockCode = p)
    IN  [k \in DOMAIN codes |->
            [StockCode |-> codes[k],
             Description |-> codes[k],
             TotalQuantity |-> SumSeq([i \in DOMAIN rowsOf(codes[k]) |->
                                        rowsOf(codes[k])[i].Quantity]),
             OrderCount |-> Cardinality({rowsOf(codes[k])[i].InvoiceNo :
                                        i \in DOMAIN rowsOf(codes[k])})]]

-----------------------------------------------------------------------------
(* MarketBasketAnalyzer.create_market_baskets                              *)

\* df.groupby('InvoiceNo')['StockCode'].apply(list): one basket per invoice,
\* in key order, the StockCodes of its line items in row order.
GroupBaskets(d) ==
    LET keys == SortedSeq({d[i].InvoiceNo : i \in DOMAIN d})
        rowsOf(o) == SelectSeq(d, LAMBDA r : r.InvoiceNo = o)
    IN  [k \in DOMAIN keys |->
            [InvoiceNo |-> keys[k],
             products |-> [i \in DOMAIN rowsOf(keys[k]) |-> rowsOf(keys[k])[i].StockCode]]]

\* df['StockCode'].value_counts(): the number of line items of each StockCode.
value_counts(d, p) == Len(SelectSeq(d, LAMBDA r : r.StockCode = p))

\* product_counts[product_counts >= min_support].index, as a set (its list
\* order is only used through sorted() and membership).
FrequentProducts(d, min_support) ==
    {p \in {d[i].StockCode : i \in DOMAIN d} : value_counts(d, p) >= min_support}

\* The loop over baskets: keep the frequent StockCodes of each basket (a list,
\* repeated line items repeated) and the baskets with more than one of them.
BasketData(d, min_support) ==
    LET freq == FrequentProducts(d, min_support)
        filtered == [k \in DOMAIN GroupBaskets(d) |->
                        [InvoiceNo |-> GroupBaskets(d)[k].InvoiceNo,
                         products |-> SelectSeq(GroupBaskets(d)[k].products,
                                                LAMBDA p : p \in freq)]]
    IN  SelectSeq(filtered, LAMBDA b : Len(b.products) > 1)

\* The binary matrix: columns sorted(frequent_products), one 0/1 row per kept
\* basket.  A table with no row is returned like any other.
BasketMatrixOf(d, min_support) ==
    LET all_products == SortedSeq(FrequentProducts(d, min_support))
        data == BasketData(d, min_support)
    IN  [columns |-> all_products,
         rows |-> [k \in DOMAIN data |->
                     [c \in DOMAIN all_products |->
                        IF all_products[c] \in Range(data[k].products) THEN 1 ELSE 0]]]

-----------------------------------------------------------------------------
(* Binary64 arithmetic for the cosine metric.                              *)
(*                                                                         *)
(* A natural number is the sequence of its limbs in base 2^LimbBits,       *)
(* lowest first, no leading zero limb; <<>> is 0.  A positive double is    *)
(* [m, e]: the value m * 2^e with m of exactly MantissaBits bits; zero has *)
(* m = <<>>.  Every operation rounds to nearest, ties to even, as IEEE 754 *)
(* does.                                                                   *)

MantissaBits == 53
LimbBits == 15
LimbBase == 2 ^ LimbBits
DigitBits == 5       \* quotient bits found per step of a long division

RECURSIVE LTrim(_)
LTrim(a) ==
    IF a = <<>> THEN <<>>
    ELSE IF a[Len(a)] = 0 THEN LTrim(SubSeq(a, 1, Len(a) - 1)) ELSE a

LRest(a) == IF a = <<>> THEN <<>> ELSE Tail(a)
LLow(a) == IF a = <<>> THEN 0 ELSE Head(a)

RECURSIVE LAddC(_, _, _)
LAddC(a, b, c) ==
    IF a = <<>> /\ b = <<>> THEN (IF c = 0 THEN <<>> ELSE <<c>>)
    ELSE LET t == LLow(a) + LLow(b) + c
         IN  <<t % LimbBase>> \o LAddC(LRest(a), LRest(b), t \div LimbBase)

LAdd(a, b) == LAddC(a, b, 0)

\* a - b for a >= b.
RECURSIVE LSubB(_, _, _)
LSubB(a, b, c) ==
    IF a = <<>> THEN <<>>
    ELSE LET t == LLow(a) - LLow(b) - c
         IN  <<t % LimbBase>> \o LSubB(LRest(a), LRest(b), IF t < 0 THEN 1 ELSE 0)

LSub(a, b) == LTrim(LSubB(a, b, 0))

RECURSIVE LCmpFrom(_, _, _)
LCmpFrom(a, b, i) ==
    IF i = 0 THEN 0
    ELSE IF a[i] # b[i] THEN (IF a[i] < b[i] THEN -1 ELSE 1)
    ELSE LCmpFrom(a, b, i - 1)

\* -1, 0 or 1 as a is less than, equal to or greater than b.
LCmp(a, b) ==
    IF Len(a) # Len(b) THEN (IF Len(a) < Len(b) THEN -1 ELSE 1)
    ELSE LCmpFrom(a, b, Len(a))

\* a * k + c for 0 <= k, c < LimbBase.
RECURSIVE LMulSmall(_, _, _)
LMulSmall(a, k, c) ==
    IF a = <<>> THEN (IF c = 0 THEN <<>> ELSE <<c>>)
    ELSE LET t == Head(a) * k + c
         IN  <<t % LimbBase>> \o LMulSmall(Tail(a), k, t \div LimbBase)

LScale(a, k) == LTrim(LMulSmall(a, k, 0))

RECURSIVE LMul(_, _)
LMul(a, b) ==
    IF a = <<>> \/ b = <<>> THEN <<>>
    ELSE LAdd(LScale(a, Head(b)),
              LET rest == LMul(a, Tail(b)) IN IF rest = <<>> THEN <<>> ELSE <<0>> \o rest)

\* The number of bits of a limb.
BitLenInt(n) == IF n = 0 THEN 0 ELSE CHOOSE k \in 1..LimbBits : 2 ^ (k - 1) <= n /\ n < 2 ^ k

LBitLen(a) == IF a = <<>> THEN 0 ELSE LimbBits * (Len(a) - 1) + BitLenInt(a[Len(a)])

\* a * 2^s and the integer part of a / 2^s.
LShl(a, s) ==
    IF a = <<>> THEN <<>>
    ELSE [i \in 1..(s \div LimbBits) |-> 0] \o LScale(a, 2 ^ (s % LimbBits))

LShr(a, s) ==
    LET drop == s \div LimbBits
        r == s % LimbBits
        hi == IF drop >= Len(a) THEN <<>> ELSE SubSeq(a, drop + 1, Len(a))
    IN  LTrim([i \in DOMAIN hi |->
                 (hi[i] \div 2 ^ r)
                 + (IF i < Len(hi) THEN (hi[i + 1] % 2 ^ r) * 2 ^ (LimbBits - r) ELSE 0)])

LFromNat(n) == LScale(<<1>>, n)

FZero == [m |-> <<>>, e |-> 0]

\* The double nearest to n * 2^e (plus a nonzero part below the last bit of
\* n when sticky), ties to even.  With sticky, n has more bits than a mantissa.
FRound(n, e, sticky) ==
    IF n = <<>> THEN FZero
    ELSE IF LBitLen(n) <= MantissaBits
    THEN [m |-> LShl(n, MantissaBits - LBitLen(n)), e |-> e - (MantissaBits - LBitLen(n))]
    ELSE LET s == LBitLen(n) - MantissaBits
             q == LShr(n, s)
             c == LCmp(LSub(n, LShl(q, s)), LShl(<<1>>, s - 1))
             up == c > 0 \/ (c = 0 /\ (sticky \/ q[1] % 2 = 1))
             m1 == IF up THEN LAdd(q, <<1>>) ELSE q
         IN  IF LBitLen(m1) > MantissaBits
             THEN [m |-> LShr(m1, 1), e |-> e + s + 1]
             ELSE [m |-> m1, e |-> e + s]

FFromNat(k) == FRound(LFromNat(k), 0, FALSE)

FMul(a, b) == FRound(LMul(a.m, b.m), a.e + b.e, FALSE)

FAdd(a, b) ==
    IF a.m = <<>> THEN b
    ELSE IF b.m = <<>> THEN a
    ELSE LET lo == IF a.e < b.e THEN a.e ELSE b.e
         IN  FRound(LAdd(LShl(a.m, a.e - lo), LShl(b.m, b.e - lo)), lo, FALSE)

\* Digit-by-digit square root of the number whose base-4 digits, highest
\* first, are ds: root and remainder.
RECURSIVE LSqrtStep(_, _, _)
LSqrtStep(ds, root, rem) ==
    IF ds = <<>> THEN [root |-> root, rem |-> rem]
    ELSE LET rem1 == LTrim(LMulSmall(rem, 4, Head(ds)))
             trial == LTrim(LMulSmall(root, 4, 1))
         IN  IF LCmp(rem1, trial) >= 0
             THEN LSqrtStep(Tail(ds), LTrim(LMulSmall(root, 2, 1)), LSub(rem1, trial))
             ELSE LSqrtStep(Tail(ds), LScale(root, 2), rem1)

RECURSIVE Base4(_)
Base4(k) == IF k = 0 THEN <<>> ELSE Base4(k \div 4) \o <<k % 4>>

\* np.sqrt of the double k, k a positive integer: the root of k * 4^MantissaBits
\* has a bit more than a mantissa, the remainder is the sticky part.
FSqrtNat(k) ==
    LET r == LSqrtStep(Base4(k) \o [i \in 1..MantissaBits |-> 0], <<>>, <<>>)
    IN  FRound(r.root, -MantissaBits, r.rem # <<>>)

\* One digit of bits quotient bits of a long division by d, for r < d:
\* 2^x = q * d + r becomes 2^(x+bits) = q' * d + r'.  The digit is the
\* number of multiples of d that fit in r * 2^bits.
LDivDigit(d, st, bits) ==
    LET r2 == LScale(st.r, 2 ^ bits)
        digit == Cardinality({k \in 1..(2 ^ bits - 1) : LCmp(LScale(d, k), r2) <= 0})
    IN  [q |-> LTrim(LAdd(LScale(st.q, 2 ^ bits), LFromNat(digit))),
         r |-> LSub(r2, LScale(d, digit))]

\* Long division of a power of two by d for steps quotient bits, DigitBits
\* bits at a time while that many are left.
RECURSIVE LDivStep(_, _, _, _)
LDivStep(d, steps, q, r) ==
    IF steps = 0 THEN [q |-> q, r |-> r]
    ELSE LET bits == IF steps >= DigitBits THEN DigitBits ELSE steps
             st == LDivDigit(d, [q |-> q, r |-> r], bits)
         IN  IF st.q = <<>> THEN LDivStep(d, steps - bits, <<>>, st.r)
             ELSE LDivStep(d, steps - bits, st.q, st.r)

\* 1.0 / a: the quotient 2^(2 * MantissaBits) / a.m has a bit more than a
\* mantissa, the remainder is the sticky part.
FRecip(a) ==
    LET top == LShl(<<1>>, MantissaBits - 1)
        dm == IF a.m = top
              THEN LDivStep(a.m, MantissaBits + 1, <<1>>, <<>>)
              ELSE LDivStep(a.m, MantissaBits + 1, <<>>, top)
    IN  FRound(dm.q, -(2 * MantissaBits) - a.e, dm.r # <<>>)

FOne == FFromNat(1)

\* a <= 1.0
FLeqOne(a) ==
    \/ a.m = <<>>
    \/ a.e < 1 - MantissaBits
    \/ a.e = 1 - MantissaBits /\ a.m = FOne.m

-----------------------------------------------------------------------------
(* SimilarityCalculator: the three metrics.                                *)
(* A basket matrix is [columns, rows]; a similarity matrix is              *)
(* [index, values] with values[i][j] the entry of products index[i] and    *)
(* index[j].                                                               *)

Metrics == {"jaccard", "cosine", "lift"}

\* The rows (baskets) in which column c is 1.
ColumnRows(bm, c) == {k \in DOMAIN bm.rows : bm.rows[k][c] = 1}

UpperPairs(n) == {p \in (1..n) \X (1..n) : p[1] <= p[2]}

\* Shared baskets over all baskets of the matrix.
JaccardPair_OverAllRows(bm, i, j) ==
    IF Len(bm.rows) > 0
    THEN Q(Cardinality(ColumnRows(bm, i) \cap ColumnRows(bm, j)), Len(bm.rows))
    ELSE QZero

\* Shared baskets over the baskets of the rarer of the two products.
JaccardPair_OverRarer(bm, i, j) ==
    LET intersection == Cardinality(ColumnRows(bm, i) \cap ColumnRows(bm, j))
        rarer == Min({Cardinality(ColumnRows(bm, i)), Cardinality(ColumnRows(bm, j))})
    IN  IF rarer > 0 THEN Q(intersection, rarer) ELSE QZero

\* The loop body of _calculate_jaccard_similarity for one pair i <= j.
JaccardPair(bm, i, j) ==
    LET intersection == Cardinality(ColumnRows(bm, i) \cap ColumnRows(bm, j))
        union == Cardinality(ColumnRows(bm, i) \cup ColumnRows(bm, j))
    IN  IF union > 0 THEN Q(intersection, union) ELSE QZero

\* The loop body of _calculate_lift_similarity for one pair i <= j, on a
\* matrix with at least one row.
LiftPair(bm, i, j) ==
    LET n_transactions == Len(bm.rows)
        sum1 == Cardinality(ColumnRows(bm, i))
        support2 == Q(Cardinality(ColumnRows(bm, j)), n_transactions)
        both == Cardinality(ColumnRows(bm, i) \cap ColumnRows(bm, j))
        confidence_1_2 == IF sum1 > 0 THEN Q(both, sum1) ELSE QZero
        lift == IF QLess(QZero, support2) THEN QDiv(confidence_1_2, support2) ELSE QZero
    IN  IF QLess(QZero, lift)
        THEN QMax(QZero, QMin(QOne, QAdd(QDiv(QSub(lift, QOne), Q(10, 1)), Q(1, 2))))
        ELSE QZero

\* A loop that assigns similarity_matrix[i, j] alone: the entries below the
\* diagonal keep the 0 of np.zeros.
MirrorFill_UpperOnly(n, upper) ==
    [i \in 1..n |-> [j \in 1..n |-> IF i <= j THEN upper[<<i, j>>] ELSE QZero]]

\* The two assignments of the loops, similarity_matrix[i, j] and
\* similarity_matrix[j, i], over an array that np.zeros created: upper holds
\* the value computed for each pair i <= j.
MirrorFill(n, upper) ==
    [i \in 1..n |-> [j \in 1..n |-> IF i <= j THEN upper[<<i, j>>] ELSE upper[<<j, i>>]]]

JaccardValues(bm) ==
    MirrorFill(Len(bm.columns),
               [p \in UpperPairs(Len(bm.columns)) |-> JaccardPair(bm, p[1], p[2])])

LiftValues(bm) ==
    MirrorFill(Len(bm.columns),
               [p \in UpperPairs(Len(bm.columns)) |-> LiftPair(bm, p[1], p[2])])

\* sklearn's normalize: a cell 1 of a column with count ones becomes
\* 1.0 / sqrt(count).  The values are computed once, for every count a
\* column of the model can have.
InvNormTable ==
    [count \in 1..Max({MaxMatrixRows, MaxOrders}) |-> FRecip(FSqrtNat(count))]
InvNorm(count) == InvNormTable[count]

RECURSIVE FSumOf(_, _)
FSumOf(x, times) == IF times = 0 THEN FZero ELSE FAdd(FSumOf(x, times - 1), x)

\* cosine_similarity(basket_matrix.T): the dot product of the normalized
\* columns i and j, the products rounded and added row after row (the terms
\* of the rows where either cell is 0 are zero).
CosineEntry(bm, i, j) ==
    LET both == Cardinality(ColumnRows(bm, i) \cap ColumnRows(bm, j))
    IN  IF both = 0 THEN FZero
        ELSE FSumOf(FMul(InvNorm(Cardinality(ColumnRows(bm, i))),
                         InvNorm(Cardinality(ColumnRows(bm, j)))), both)

CosineValues(bm) ==
    [i \in DOMAIN bm.columns |-> [j \in DOMAIN bm.columns |-> CosineEntry(bm, i, j)]]

ZeroValues(n) == [i \in 1..n |-> [j \in 1..n |-> QZero]]

SimOk(bm, values) == [ok |-> TRUE, error |-> "", matrix |-> [index |-> bm.columns, values |-> values]]
SimFail(err) == [ok |-> FALSE, error |-> err, matrix |-> None]

\* What calculate_similarity_matrix can do after storing basket_matrix.
\* cosine_similarity rejects an array without rows or columns.  On a matrix
\* without rows, lift divides 0 by 0: a ZeroDivisionError when the column sums
\* are Python ints (the object columns create_market_baskets builds), a nan
\* and then all zeros when they are numpy integers.
SimilarityOutcomes(bm, metric) ==
    IF metric = "jaccard" THEN {SimOk(bm, JaccardValues(bm))}
    ELSE IF metric = "cosine"
    THEN IF bm.rows = <<>> \/ bm.columns = <<>>
         THEN {SimFail("LibraryError")}
         ELSE {SimOk(bm, CosineValues(bm))}
    ELSE IF metric = "lift"
    THEN IF bm.rows = <<>> /\ bm.columns # <<>>
         THEN {SimFail("ZeroDivisionError"), SimOk(bm, ZeroValues(Len(bm.columns)))}
         ELSE {SimOk(bm, LiftValues(bm))}
    ELSE {SimFail("InvalidMetricError")}

-----------------------------------------------------------------------------
(* The state after construction.                                           *)

\* The outcome of a call: the operation, its arguments, and either the value
\* it returned or the error it raised.  The code raises ValueError at each of
\* its own raise statements; error names the role of the raise statement.
\* warnings are the diagnostics the call printed.
Returned(op, args, v) ==
    [op |-> op, args |-> args, status |-> "ok", error |-> "", value |-> v,
     warnings |-> <<>>]
Raised(op, args, err) ==
    [op |-> op, args |-> args, status |-> "raised", error |-> err, value |-> None,
     warnings |-> <<>>]

NoArgs == <<>>

Init ==
    /\ df = None
    /\ product_info = None
    /\ rg_product_info = None
    /\ basket_matrix = None
    /\ frequent_products = None
    /\ sc_basket_matrix = None
    /\ similarity_matrix = None
    /\ clusters = None
    /\ ca_similarity_matrix = None
    /\ ca_product_info = None
    /\ db_saved = <<>>
    /\ result = Returned("init", NoArgs, None)
    /\ input = None
    /\ handlers = <<>>
    /\ running = None

\* WarehouseRecommendationSystem.load_data when the handler returns a table.
load_data(d) ==
    /\ df' = Some(d)
    /\ product_info' = Some(create_product_info(d))
    /\ rg_product_info' = Some(create_product_info(d))
    /\ result' = Returned("load_data", NoArgs, Some(d))
    /\ UNCHANGED <<basket_matrix, frequent_products, sc_basket_matrix,
                   similarity_matrix, clusters, ca_similarity_matrix,
                   ca_product_info, db_saved>>

\* WarehouseRecommendationSystem.create_market_baskets
create_market_baskets(min_support) ==
    IF df = None
    THEN /\ result' = Raised("create_market_baskets", [min_support |-> min_support],
                              "PreconditionError")
         /\ UNCHANGED <<df, product_info, rg_product_info, basket_matrix,
                        frequent_products, sc_basket_matrix, similarity_matrix,
                        clusters, ca_similarity_matrix, ca_product_info, db_saved>>
    ELSE /\ frequent_products' = Some(FrequentProducts(Val(df), min_support))
         /\ basket_matrix' = Some(BasketMatrixOf(Val(df), min_support))
         /\ result' = Returned("create_market_baskets", [min_support |-> min_support],
                                Some(BasketMatrixOf(Val(df), min_support)))
         /\ UNCHANGED <<df, product_info, rg_product_info, sc_basket_matrix,
                        similarity_matrix, clusters, ca_similarity_matrix,
                        ca_product_info, db_saved>>

CreateBaskets == \E s \in 1..MaxSupport : create_market_baskets(s) /\ UNCHANGED <<input, handlers, running>>

\* The basket builder on every generated table: the system right after one
\* load_data, then create_market_baskets with any min_support, any number of
\* times.
InitBasket ==
    \E d \in GeneratedTables :
        /\ df = Some(d)
        /\ product_info = Some(create_product_info(d))
        /\ rg_product_info = Some(create_product_info(d))
        /\ basket_matrix = None
        /\ frequent_products = None
        /\ sc_basket_matrix = None
        /\ similarity_matrix = None
        /\ clusters = None
        /\ ca_similarity_matrix = None
        /\ ca_product_info = None
        /\ db_saved = <<>>
        /\ result = Returned("load_data", NoArgs, Some(d))
        /\ input = None
        /\ handlers = <<>>
        /\ running = None

NextBasket == CreateBaskets

SpecBasket == InitBasket /\ [][NextBasket]_vars

-----------------------------------------------------------------------------
(* The similarity engine.                                                  *)

MetricInputs == Metrics \cup {"euclidean"}

GeneratedMatrices ==
    UNION {[columns : {[i \in 1..n |-> i]},
            rows : SeqsUpTo([1..n -> {0, 1}], MaxMatrixRows)] : n \in 0..MaxMatrixColumns}

\* SimilarityCalculator.calculate_similarity_matrix(bm, metric), called as op.
sc_calculate_similarity_matrix(op, bm, metric) ==
    /\ sc_basket_matrix' = Some(bm)
    /\ \E out \in SimilarityOutcomes(bm, metric) :
          IF out.ok
          THEN /\ similarity_matrix' = Some(out.matrix)
               /\ result' = Returned(op, [metric |-> metric], Some(out.matrix))
          ELSE /\ similarity_matrix' = similarity_matrix
               /\ result' = Raised(op, [metric |-> metric], out.error)
    /\ UNCHANGED <<df, product_info, rg_product_info, basket_matrix, frequent_products,
                   clusters, ca_similarity_matrix, ca_product_info, db_saved>>

\* calculate_similarity_matrix without the check of the basket matrix: a
\* missing basket matrix is treated as a matrix without columns and rows.
calculate_similarity_matrix_Unguarded(metric) ==
    sc_calculate_similarity_matrix("calculate_similarity_matrix",
                                   IF basket_matrix = None
                                   THEN [columns |-> <<>>, rows |-> <<>>]
                                   ELSE Val(basket_matrix),
                                   metric)

\* WarehouseRecommendationSystem.calculate_similarity_matrix
calculate_similarity_matrix(metric) ==
    IF basket_matrix = None
    THEN /\ result' = Raised("calculate_similarity_matrix", [metric |-> metric],
                              "PreconditionError")
         /\ UNCHANGED <<df, product_info, rg_product_info, basket_matrix,
                        frequent_products, sc_basket_matrix, similarity_matrix,
                        clusters, ca_similarity_matrix, ca_product_info, db_saved>>
    ELSE sc_calculate_similarity_matrix("calculate_similarity_matrix",
                                        Val(basket_matrix), metric)

\* The similarity engine alone: a freshly constructed SimilarityCalculator and
\* one call of calculate_similarity_matrix with a generated basket matrix and
\* metric input.
InitSim ==
    /\ df = None
    /\ product_info = None
    /\ rg_product_info = None
    /\ basket_matrix = None
    /\ frequent_products = None
    /\ sc_basket_matrix = None
    /\ similarity_matrix = None
    /\ clusters = None
    /\ ca_similarity_matrix = None
    /\ ca_product_info = None
    /\ db_saved = <<>>
    /\ result = Returned("init", NoArgs, None)
    /\ input \in {Some(i) : i \in [bm : GeneratedMatrices, metric : MetricInputs]}
    /\ handlers = <<>>
    /\ running = None

CalculateDirect ==
    /\ input # None
    /\ input' = None
    /\ UNCHANGED <<handlers, running>>
    /\ sc_calculate_similarity_matrix("sc.calculate_similarity_matrix",
                                      Val(input).bm, Val(input).metric)

NextSim == CalculateDirect

SpecSim == InitSim /\ [][NextSim]_vars

-----------------------------------------------------------------------------
(* ClusteringAnalyzer.                                                     *)
(* The cluster table is a sequence of rows [StockCode, Cluster, info]:     *)
(* info is the product_info row the merge found, None where it found none  *)
(* (the NaN cells of the left merge).                                      *)

Linkages == {"complete", "average", "single"}

\* distance_matrix = 1 - similarity_matrix.values with the diagonal set to 0;
\* the clustering reads the entries above the diagonal.
Distance(sim, i, j) ==
    IF i = j THEN QZero
    ELSE QSub(QOne, sim.values[IF i < j THEN i ELSE j][IF i < j THEN j ELSE i])

\* The linkage criterion between clusters A and B (sets of index positions).
LinkageDistance(sim, linkage, A, B) ==
    LET sa == SortedSeq(A)
        sb == SortedSeq(B)
        rowSum(k) == QSum([l \in DOMAIN sb |-> Distance(sim, sa[k], sb[l])])
        all == {Distance(sim, i, j) : i \in A, j \in B}
    IN  IF linkage = "complete" THEN CHOOSE d \in all : \A x \in all : QLeq(x, d)
        ELSE IF linkage = "single" THEN CHOOSE d \in all : \A x \in all : QLeq(d, x)
        ELSE QDiv(QSum([k \in DOMAIN sa |-> rowSum(k)]),
                  Q(Cardinality(A) * Cardinality(B), 1))

\* The clusters being merged are nodes [id, members]: the leaf of index
\* position i is node i - 1, the k-th merge (from 0) makes node n + k.
NodePairs(active) == {pr \in active \X active : pr[1].id < pr[2].id}

\* The pairs of nodes at the least linkage distance.  The library merges one
\* of them; which one, when several tie, is its choice.
ClosestPairs(sim, linkage, active) ==
    LET measured == {<<pr, LinkageDistance(sim, linkage, pr[1].members, pr[2].members)>> :
                        pr \in NodePairs(active)}
    IN  {m[1] : m \in {x \in measured : \A other \in measured : QLeq(x[2], other[2])}}

\* The merge trees scipy's linkage can return, continued from the merges made
\* so far: a sequence of merges [left, right, members, height], left < right.
RECURSIVE LinkageTrees(_, _, _, _, _)
LinkageTrees(sim, linkage, n, active, merges) ==
    IF Cardinality(active) <= 1 THEN {merges}
    ELSE UNION {LinkageTrees(sim, linkage, n,
                    (active \ {pr[1], pr[2]})
                        \cup {[id |-> n + Len(merges),
                               members |-> pr[1].members \cup pr[2].members]},
                    Append(merges,
                           [left |-> pr[1].id, right |-> pr[2].id,
                            members |-> pr[1].members \cup pr[2].members,
                            height |-> LinkageDistance(sim, linkage, pr[1].members,
                                                       pr[2].members)])) :
                pr \in ClosestPairs(sim, linkage, active)}

\* heapq._siftdown(heap, startpos, pos) with the item being placed; positions
\* count from 0 as in the code.
RECURSIVE heap_siftdown(_, _, _, _)
heap_siftdown(heap, startpos, pos, newitem) ==
    IF pos > startpos /\ newitem < heap[((pos - 1) \div 2) + 1]
    THEN heap_siftdown([heap EXCEPT ![pos + 1] = heap[((pos - 1) \div 2) + 1]],
                       startpos, (pos - 1) \div 2, newitem)
    ELSE [heap EXCEPT ![pos + 1] = newitem]

\* The loop of heapq._siftup: the smaller child moves up until a leaf is hit.
RECURSIVE heap_siftup_loop(_, _, _)
heap_siftup_loop(heap, pos, newitem) ==
    LET childpos == 2 * pos + 1
        rightpos == childpos + 1
        chosen == IF rightpos < Len(heap) /\ ~(heap[childpos + 1] < heap[rightpos + 1])
                  THEN rightpos ELSE childpos
    IN  IF childpos < Len(heap)
        THEN heap_siftup_loop([heap EXCEPT ![pos + 1] = heap[chosen + 1]], chosen, newitem)
        ELSE heap_siftdown(heap, 0, pos, newitem)

\* heapq.heappush
heappush(heap, item) == heap_siftdown(Append(heap, item), 0, Len(heap), item)

\* heapq.heappushpop: the heap that is left.
heappushpop(heap, item) ==
    IF heap # <<>> /\ heap[1] < item THEN heap_siftup_loop(heap, 0, item) ELSE heap

\* The loop of _hc_cut: the node on top is replaced by its two children.
RECURSIVE hc_cut_nodes(_, _, _, _)
hc_cut_nodes(nodes, steps, tree, n) ==
    IF steps = 0 THEN nodes
    ELSE LET these_children == tree[(-nodes[1]) - n + 1]
         IN  hc_cut_nodes(heappushpop(heappush(nodes, -these_children.left),
                                      -these_children.right),
                          steps - 1, tree, n)

\* sklearn's _hc_cut(n_clusters, children, n_leaves): the label of index
\* position i is the place, from 0, of its node in the list of heap nodes.
hc_cut(n_clusters, tree, n) ==
    LET nodes == hc_cut_nodes(<<-(2 * n - 2)>>, n_clusters - 1, tree, n)
        membersOf(node) == IF node < n THEN {node + 1} ELSE tree[node - n + 1].members
    IN  [i \in 1..n |-> (CHOOSE k \in DOMAIN nodes : i \in membersOf(-nodes[k])) - 1]

\* AgglomerativeClustering(n_clusters, distance_threshold, linkage,
\* metric='precomputed').fit_predict(distance_matrix): the label vectors it
\* can return; none when it raises (fewer than 2 samples, not exactly one of
\* n_clusters and distance_threshold, n_clusters outside 1..n).  With a
\* threshold, n_clusters_ is one more than the merges at that height or above.
fit_predict(sim, n_clusters, linkage, distance_threshold) ==
    LET n == Len(sim.index)
        trees == LinkageTrees(sim, linkage, n,
                              {[id |-> i - 1, members |-> {i}] : i \in 1..n}, <<>>)
        cutAt(tree) ==
            IF n_clusters # None THEN Val(n_clusters)
            ELSE Cardinality({k \in DOMAIN tree :
                                 QLeq(Val(distance_threshold), tree[k].height)}) + 1
    IN  IF n < 2 \/ ((n_clusters = None) <=> (distance_threshold = None)) THEN {}
        ELSE IF n_clusters # None /\ (Val(n_clusters) < 1 \/ Val(n_clusters) > n) THEN {}
        ELSE {hc_cut(cutAt(tree), tree, n) : tree \in trees}

\* ClusteringAnalyzer._determine_optimal_clusters
_determine_optimal_clusters(n_products) ==
    IF n_products <= 10 THEN 2
    ELSE IF n_products <= 50 THEN Min({5, n_products \div 10})
    ELSE IF n_products <= 200 THEN Min({8, n_products \div 25})
    ELSE IF n_products <= 1000 THEN Min({12, n_products \div 50})
    ELSE Min({15, n_products \div 100})

RECURSIVE FlattenSeq(_)
FlattenSeq(ss) == IF ss = <<>> THEN <<>> ELSE Head(ss) \o FlattenSeq(Tail(ss))

\* left.merge(right, on='StockCode', how='outer'): the rows of the left merge
\* and then a row for each StockCode that only right has, its Cluster NaN.
merge_outer(left, right) ==
    LET matches(r) == SelectSeq(right, LAMBDA x : x.StockCode = r.StockCode)
        leftRows == [k \in DOMAIN left |->
                       IF matches(left[k]) = <<>>
                       THEN <<[StockCode |-> left[k].StockCode, Cluster |-> left[k].Cluster,
                               info |-> None]>>
                       ELSE [m \in DOMAIN matches(left[k]) |->
                               [StockCode |-> left[k].StockCode, Cluster |-> left[k].Cluster,
                                info |-> Some(matches(left[k])[m])]]]
        onlyRight == SelectSeq(right, LAMBDA x : \A k \in DOMAIN left :
                                                    left[k].StockCode # x.StockCode)
    IN  FlattenSeq(leftRows) \o
        [k \in DOMAIN onlyRight |->
            [StockCode |-> onlyRight[k].StockCode, Cluster |-> -1, info |-> Some(onlyRight[k])]]

\* left.merge(right, on='StockCode', how='left'): for each row of left, in
\* order, one row per row of right with its StockCode, or one row without info.
merge_left(left, right) ==
    LET matches(r) == SelectSeq(right, LAMBDA x : x.StockCode = r.StockCode)
    IN  FlattenSeq([k \in DOMAIN left |->
                       IF matches(left[k]) = <<>>
                       THEN <<[StockCode |-> left[k].StockCode, Cluster |-> left[k].Cluster,
                               info |-> None]>>
                       ELSE [m \in DOMAIN matches(left[k]) |->
                               [StockCode |-> left[k].StockCode, Cluster |-> left[k].Cluster,
                                info |-> Some(matches(left[k])[m])]]])

\* A balance check that leaves out the number of clusters.
UnbalancedClusters_AnyCount(cluster_labels) ==
    LET counts == {Cardinality({k \in DOMAIN cluster_labels : cluster_labels[k] = id}) :
                      id \in Range(cluster_labels)}
    IN  counts # {} /\ Max(counts) > 3 * Min(counts)

\* The balance check on the labels: np.unique counts, the largest more than
\* 3 times the smallest, and more than 2 clusters.
UnbalancedClusters(cluster_labels) ==
    LET counts == {Cardinality({k \in DOMAIN cluster_labels : cluster_labels[k] = id}) :
                      id \in Range(cluster_labels)}
        max_size == IF counts # {} THEN Max(counts) ELSE 0
        min_size == IF counts # {} THEN Min(counts) ELSE 0
    IN  max_size > 3 * min_size /\ Cardinality(Range(cluster_labels)) > 2

\* What ClusteringAnalyzer.perform_clustering can build: the cluster table
\* and whether the balance warning is printed; nothing when fit_predict
\* raises.
ClusterOutcomes(sim, pinfo, n_clusters, linkage, distance_threshold) ==
    LET chosen == IF n_clusters = None /\ distance_threshold = None
                  THEN Some(_determine_optimal_clusters(Len(sim.index)))
                  ELSE n_clusters
    IN  {[table |-> merge_left([k \in DOMAIN sim.index |->
                                  [StockCode |-> sim.index[k], Cluster |-> lab[k]]],
                               pinfo),
          warnings |-> IF UnbalancedClusters(lab) THEN <<"UnbalancedClusters">> ELSE <<>>] :
            lab \in fit_predict(sim, chosen, linkage, distance_threshold)}

\* The cluster tables ClusteringAnalyzer.perform_clustering can build.
ClusterTables(sim, pinfo, n_clusters, linkage, distance_threshold) ==
    {o.table : o \in ClusterOutcomes(sim, pinfo, n_clusters, linkage, distance_threshold)}

\* ClusteringAnalyzer.perform_clustering(sim, pinfo, ...), called as op.
ca_perform_clustering(op, args, sim, pinfo) ==
    LET outcomes == ClusterOutcomes(sim, pinfo, args.n_clusters, args.linkage,
                                    args.distance_threshold)
    IN  /\ ca_similarity_matrix' = Some(sim)
        /\ ca_product_info' = Some(pinfo)
        /\ IF outcomes = {}
           THEN /\ clusters' = clusters
                /\ result' = Raised(op, args, "LibraryError")
           ELSE \E o \in outcomes :
                    /\ clusters' = Some(o.table)
                    /\ result' = [Returned(op, args, Some(o.table))
                                     EXCEPT !.warnings = o.warnings]
        /\ UNCHANGED <<df, product_info, rg_product_info, basket_matrix, frequent_products,
                       sc_basket_matrix, similarity_matrix, db_saved>>

\* WarehouseRecommendationSystem.perform_clustering
perform_clustering(args) ==
    IF similarity_matrix = None \/ product_info = None
    THEN /\ result' = Raised("perform_clustering", args, "PreconditionError")
         /\ UNCHANGED <<df, product_info, rg_product_info, basket_matrix,
                        frequent_products, sc_basket_matrix, similarity_matrix,
                        clusters, ca_similarity_matrix, ca_product_info, db_saved>>
    ELSE ca_perform_clustering("perform_clustering", args,
                               Val(similarity_matrix), Val(product_info))

-----------------------------------------------------------------------------
(* RecommendationGenerator.                                                *)
(* A recommendation_strength is [coef, arg]: the real number               *)
(* coef * ln(arg) when arg >= 1, and coef itself when arg = 0 (the         *)
(* fallback without product info).  UnitPrice and avg_unit_price are not   *)
(* part of the model; the explanation text is the pair of numbers it       *)
(* states.                                                                 *)

\* floor(10^6 * ln(a)) for a = 1, 2, ...
LnMicro ==
    <<0, 693147, 1098612, 1386294, 1609437, 1791759, 1945910, 2079441,
      2197224, 2302585, 2397895, 2484906, 2564949, 2639057, 2708050, 2772588,
      2833213, 2890371, 2944438, 2995732, 3044522, 3091042, 3135494, 3178053,
      3218875, 3258096, 3295836, 3332204, 3367295, 3401197, 3433987, 3465735>>

\* The factor of a strength in millionths: ln(arg), or 1.
FactorMicro(s) == IF s.arg = 0 THEN 1000000 ELSE LnMicro[s.arg]

StrengthIsZero(s) == s.coef.n = 0 \/ s.arg = 1

\* a = root^power for the least root: ln(a) = power * ln(root).
LogRoot(a) ==
    CHOOSE rp \in (2..a) \X (1..5) :
        /\ rp[1] ^ rp[2] = a
        /\ \A r \in 2..(rp[1] - 1) : \A p \in 1..5 : r ^ p # a

\* Equality of two strengths, exactly.
StrengthEqual(s, t) ==
    IF StrengthIsZero(s) \/ StrengthIsZero(t) THEN StrengthIsZero(s) /\ StrengthIsZero(t)
    ELSE IF s.arg = 0 \/ t.arg = 0 THEN s.arg = t.arg /\ s.coef = t.coef
    ELSE /\ LogRoot(s.arg)[1] = LogRoot(t.arg)[1]
         /\ QMul(s.coef, Q(LogRoot(s.arg)[2], 1)) = QMul(t.coef, Q(LogRoot(t.arg)[2], 1))

\* s < t; strengths that are not equal are compared to six decimals of
\* their factors.
StrengthLess(s, t) ==
    /\ ~StrengthEqual(s, t)
    /\ s.coef.n * t.coef.d * FactorMicro(s) < t.coef.n * s.coef.d * FactorMicro(t)

\* clusters['Cluster'].unique(): the cluster ids in order of first appearance.
RECURSIVE UniqueSeq(_)
UniqueSeq(s) ==
    IF s = <<>> THEN <<>>
    ELSE LET front == UniqueSeq(SubSeq(s, 1, Len(s) - 1))
         IN  IF s[Len(s)] \in Range(front) THEN front ELSE Append(front, s[Len(s)])

\* ClusteringAnalyzer.get_cluster_products on a cluster table
ClusterRows(table, cluster_id) == SelectSeq(table, LAMBDA r : r.Cluster = cluster_id)

\* A coherence that does not skip: the sum of the similarities of the indexed
\* pairs divided by the number of all pairs i < j of stock_codes.
Coherence_AllPairs(sim, stock_codes) ==
    LET pos(p) == CHOOSE k \in DOMAIN sim.index : sim.index[k] = p
        all == {pr \in (DOMAIN stock_codes) \X (DOMAIN stock_codes) : pr[1] < pr[2]}
        pairs == {pr \in all : /\ stock_codes[pr[1]] \in Range(sim.index)
                               /\ stock_codes[pr[2]] \in Range(sim.index)}
        RECURSIVE SumPairs(_)
        SumPairs(S) ==
            IF S = {} THEN QZero
            ELSE LET pr == CHOOSE x \in S : TRUE
                 IN  QAdd(sim.values[pos(stock_codes[pr[1]])][pos(stock_codes[pr[2]])],
                          SumPairs(S \ {pr}))
    IN  IF all = {} THEN QZero ELSE QDiv(SumPairs(pairs), Q(Cardinality(all), 1))

\* The mean of the similarities of the pairs i < j of stock_codes that the
\* index of sim has; 0 for fewer than 2 codes or no such pair.
Coherence(sim, stock_codes) ==
    LET pos(p) == CHOOSE k \in DOMAIN sim.index : sim.index[k] = p
        pairs == {pr \in (DOMAIN stock_codes) \X (DOMAIN stock_codes) :
                     /\ pr[1] < pr[2]
                     /\ stock_codes[pr[1]] \in Range(sim.index)
                     /\ stock_codes[pr[2]] \in Range(sim.index)}
        RECURSIVE SumPairs(_)
        SumPairs(S) ==
            IF S = {} THEN QZero
            ELSE LET pr == CHOOSE x \in S : TRUE
                 IN  QAdd(sim.values[pos(stock_codes[pr[1]])][pos(stock_codes[pr[2]])],
                          SumPairs(S \ {pr}))
    IN  IF Len(stock_codes) < 2 \/ pairs = {} THEN QZero
        ELSE QDiv(SumPairs(pairs), Q(Cardinality(pairs), 1))

\* RecommendationGenerator._calculate_cluster_coherence
_calculate_cluster_coherence(stock_codes) == Coherence(Val(similarity_matrix), stock_codes)

\* RecommendationGenerator._generate_explanation on the rows of a cluster:
\* the member count and the total-sales clause.  The cluster table has the
\* TotalQuantity column of the product_info it was merged with; sum() skips
\* the NaN cells of the rows the merge found no info for.
_generate_explanation(cluster_products) ==
    LET known == SelectSeq(cluster_products, LAMBDA r : r.info # None)
    IN  [total_items |-> Len(cluster_products),
         total_sales |-> Some(SumSeq([k \in DOMAIN known |->
                                        Val(known[k].info).TotalQuantity]))]

\* A record whose strength is coherence * ln(total_quantity), without the 1
\* added to the total.
Recommendation_LogOfTotal(cluster_id, cluster_products) ==
    LET cluster_stock_codes == [k \in DOMAIN cluster_products |-> cluster_products[k].StockCode]
        coherence_score == Coherence(Val(similarity_matrix), cluster_stock_codes)
        cluster_product_info ==
            IF rg_product_info = None THEN <<>>
            ELSE SelectSeq(Val(rg_product_info),
                           LAMBDA r : r.StockCode \in Range(cluster_stock_codes))
        total_quantity == SumSeq([k \in DOMAIN cluster_product_info |->
                                     cluster_product_info[k].TotalQuantity])
    IN  [cluster_id |-> cluster_id,
         coherence_score |-> coherence_score,
         total_quantity_sold |-> total_quantity,
         recommendation_strength |->
            IF cluster_product_info # <<>>
            THEN [coef |-> coherence_score, arg |-> total_quantity]
            ELSE [coef |-> coherence_score, arg |-> 0],
         products |-> <<>>]

\* A record whose strength without metadata is coherence * ln(0 + 1), the
\* formula applied to a total of 0, instead of the coherence.
Recommendation_LogWithoutMetadata(cluster_id, cluster_products) ==
    LET cluster_stock_codes == [k \in DOMAIN cluster_products |-> cluster_products[k].StockCode]
        coherence_score == Coherence(Val(similarity_matrix), cluster_stock_codes)
        cluster_product_info ==
            IF rg_product_info = None THEN <<>>
            ELSE SelectSeq(Val(rg_product_info),
                           LAMBDA r : r.StockCode \in Range(cluster_stock_codes))
        total_quantity == SumSeq([k \in DOMAIN cluster_product_info |->
                                     cluster_product_info[k].TotalQuantity])
    IN  [cluster_id |-> cluster_id,
         coherence_score |-> coherence_score,
         total_quantity_sold |-> total_quantity,
         recommendation_strength |-> [coef |-> coherence_score, arg |-> total_quantity + 1],
         products |-> <<>>]

\* The body of the loop of generate_recommendations for one cluster in the
\* size window.
Recommendation(cluster_id, cluster_products) ==
    LET cluster_stock_codes == [k \in DOMAIN cluster_products |-> cluster_products[k].StockCode]
        coherence_score == _calculate_cluster_coherence(cluster_stock_codes)
        cluster_product_info ==
            IF rg_product_info = None THEN <<>>
            ELSE SelectSeq(Val(rg_product_info),
                           LAMBDA r : r.StockCode \in Range(cluster_stock_codes))
        total_quantity == SumSeq([k \in DOMAIN cluster_product_info |->
                                     cluster_product_info[k].TotalQuantity])
        rowOf(p) == SelectSeq(Val(rg_product_info), LAMBDA r : r.StockCode = p)
    IN  [cluster_id |-> cluster_id,
         coherence_score |-> coherence_score,
         total_quantity_sold |-> total_quantity,
         recommendation_strength |->
            IF cluster_product_info # <<>>
            THEN [coef |-> coherence_score, arg |-> total_quantity + 1]
            ELSE [coef |-> coherence_score, arg |-> 0],
         products |->
            IF rg_product_info = None
            THEN [k \in DOMAIN cluster_stock_codes |->
                    [StockCode |-> cluster_stock_codes[k], Description |-> "N/A", Quantity |-> 0]]
            ELSE FlattenSeq([k \in DOMAIN cluster_stock_codes |->
                    IF rowOf(cluster_stock_codes[k]) = <<>> THEN <<>>
                    ELSE <<[StockCode |-> cluster_stock_codes[k],
                            Description |-> rowOf(cluster_stock_codes[k])[1].Description,
                            Quantity |-> rowOf(cluster_stock_codes[k])[1].TotalQuantity]>>]),
         explanation |-> _generate_explanation(cluster_products)]

\* A loop whose window leaves out the clusters of exactly max_cluster_size
\* members.
Candidates_BelowMax(table, min_cluster_size, max_cluster_size) ==
    LET ids == UniqueSeq([k \in DOMAIN table |-> table[k].Cluster])
        inWindow(id) == /\ Len(ClusterRows(table, id)) >= min_cluster_size
                        /\ Len(ClusterRows(table, id)) < max_cluster_size
        kept == SelectSeq(ids, inWindow)
    IN  [k \in DOMAIN kept |-> Recommendation(kept[k], ClusterRows(table, kept[k]))]

\* The list the loop builds: the clusters in order of first appearance, those
\* outside the size window left out.
Candidates(table, min_cluster_size, max_cluster_size) ==
    LET ids == UniqueSeq([k \in DOMAIN table |-> table[k].Cluster])
        inWindow(id) == /\ Len(ClusterRows(table, id)) >= min_cluster_size
                        /\ Len(ClusterRows(table, id)) <= max_cluster_size
        kept == SelectSeq(ids, inWindow)
    IN  [k \in DOMAIN kept |-> Recommendation(kept[k], ClusterRows(table, kept[k]))]

\* A sort that puts a record before the records of equal strength already
\* placed: equal strengths end up in reverse order.
RECURSIVE SortByStrength_TiesReversed(_)
SortByStrength_TiesReversed(recs) ==
    IF recs = <<>> THEN <<>>
    ELSE LET front == SortByStrength_TiesReversed(SubSeq(recs, 1, Len(recs) - 1))
             x == recs[Len(recs)]
             before == SelectSeq(front, LAMBDA r :
                          StrengthLess(x.recommendation_strength, r.recommendation_strength))
             after == SelectSeq(front, LAMBDA r :
                          ~StrengthLess(x.recommendation_strength, r.recommendation_strength))
         IN  before \o <<x>> \o after

\* recommendations.sort(key=strength, reverse=True): descending, and stable
\* (records of equal strength keep their order).
RECURSIVE SortByStrength(_)
SortByStrength(recs) ==
    IF recs = <<>> THEN <<>>
    ELSE LET front == SortByStrength(SubSeq(recs, 1, Len(recs) - 1))
             x == recs[Len(recs)]
             before == SelectSeq(front, LAMBDA r :
                          ~StrengthLess(r.recommendation_strength, x.recommendation_strength))
             after == SelectSeq(front, LAMBDA r :
                          StrengthLess(r.recommendation_strength, x.recommendation_strength))
         IN  before \o <<x>> \o after

\* recommendations[:top_n] for top_n >= 0
TopSlice(recs, top_n) == SubSeq(recs, 1, IF top_n < Len(recs) THEN top_n ELSE Len(recs))

\* A scorer that hands the delegate the whole sorted list instead of the
\* top_n slice.
rg_generate_recommendations_SavesAll(op, args, has_handler) ==
    IF clusters = None
    THEN /\ result' = Raised(op, args, "PreconditionError")
         /\ UNCHANGED <<df, product_info, rg_product_info, basket_matrix,
                        frequent_products, sc_basket_matrix, similarity_matrix,
                        clusters, ca_similarity_matrix, ca_product_info, db_saved>>
    ELSE LET recommendations ==
                 SortByStrength(Candidates(Val(clusters), args.min_cluster_size,
                                           args.max_cluster_size))
         IN  /\ db_saved' = IF args.save_to_db /\ has_handler
                            THEN Append(db_saved, recommendations)
                            ELSE db_saved
             /\ result' = Returned(op, args, Some(TopSlice(recommendations, args.top_n)))
             /\ UNCHANGED <<df, product_info, rg_product_info, basket_matrix,
                            frequent_products, sc_basket_matrix, similarity_matrix,
                            clusters, ca_similarity_matrix, ca_product_info>>

\* RecommendationGenerator.generate_recommendations(top_n, min_cluster_size,
\* max_cluster_size, save_to_db, db_handler), called as op; has_handler says
\* that db_handler is not None.  The delegate returns True or False (it
\* catches every exception); False is printed as a failed save.
rg_generate_recommendations(op, args, has_handler) ==
    IF clusters = None
    THEN /\ result' = Raised(op, args, "PreconditionError")
         /\ UNCHANGED <<df, product_info, rg_product_info, basket_matrix,
                        frequent_products, sc_basket_matrix, similarity_matrix,
                        clusters, ca_similarity_matrix, ca_product_info, db_saved>>
    ELSE LET recommendations ==
                 SortByStrength(Candidates(Val(clusters), args.min_cluster_size,
                                           args.max_cluster_size))
             returned == Returned(op, args, Some(TopSlice(recommendations, args.top_n)))
         IN  /\ IF args.save_to_db /\ has_handler
                THEN /\ db_saved' = Append(db_saved, TopSlice(recommendations, args.top_n))
                     /\ \E success \in BOOLEAN :
                           result' = IF success THEN returned
                                     ELSE [returned EXCEPT !.warnings = <<"SaveFailed">>]
                ELSE /\ db_saved' = db_saved
                     /\ result' = IF args.save_to_db
                                  THEN [returned EXCEPT !.warnings = <<"NoHandler">>]
                                  ELSE returned
             /\ UNCHANGED <<df, product_info, rg_product_info, basket_matrix,
                            frequent_products, sc_basket_matrix, similarity_matrix,
                            clusters, ca_similarity_matrix, ca_product_info>>

\* generate_recommendations without the two checks of clusters: no clusters
\* are treated as an empty cluster table.
generate_recommendations_Unguarded(args) ==
    IF clusters = None
    THEN /\ db_saved' = IF args.save_to_db THEN Append(db_saved, <<>>) ELSE db_saved
         /\ result' = Returned("generate_recommendations", args, Some(<<>>))
         /\ UNCHANGED <<df, product_info, rg_product_info, basket_matrix,
                        frequent_products, sc_basket_matrix, similarity_matrix,
                        clusters, ca_similarity_matrix, ca_product_info>>
    ELSE rg_generate_recommendations("generate_recommendations", args, TRUE)

\* WarehouseRecommendationSystem.generate_recommendations
generate_recommendations(args) ==
    IF clusters = None
    THEN /\ result' = Raised("generate_recommendations", args, "PreconditionError")
         /\ UNCHANGED <<df, product_info, rg_product_info, basket_matrix,
                        frequent_products, sc_basket_matrix, similarity_matrix,
                        clusters, ca_similarity_matrix, ca_product_info, db_saved>>
    ELSE rg_generate_recommendations("generate_recommendations", args, TRUE)

-----------------------------------------------------------------------------
(* ClusteringAnalyzer queries.                                             *)

QueryUnchanged ==
    UNCHANGED <<df, product_info, rg_product_info, basket_matrix, frequent_products,
                sc_basket_matrix, similarity_matrix, clusters, ca_similarity_matrix,
                ca_product_info, db_saved>>

\* ClusteringAnalyzer.get_clusters
get_clusters ==
    /\ result' = IF clusters = None
                 THEN Raised("get_clusters", NoArgs, "PreconditionError")
                 ELSE Returned("get_clusters", NoArgs, clusters)
    /\ QueryUnchanged

\* ClusteringAnalyzer.get_cluster_analysis: one record per cluster id, in
\* ascending order; the sum of TotalQuantity skips the rows without info.
get_cluster_analysis ==
    /\ result' =
          IF clusters = None
          THEN Raised("get_cluster_analysis", NoArgs, "PreconditionError")
          ELSE LET table == Val(clusters)
                   ids == SortedSeq({table[k].Cluster : k \in DOMAIN table})
                   known(id) == SelectSeq(ClusterRows(table, id), LAMBDA r : r.info # None)
               IN  Returned("get_cluster_analysis", NoArgs,
                       Some([k \in DOMAIN ids |->
                               [cluster_id |-> ids[k],
                                size |-> Len(ClusterRows(table, ids[k])),
                                total_quantity |->
                                    SumSeq([i \in DOMAIN known(ids[k]) |->
                                              Val(known(ids[k])[i].info).TotalQuantity]),
                                products |->
                                    [i \in DOMAIN ClusterRows(table, ids[k]) |->
                                        ClusterRows(table, ids[k])[i].info]]]))
    /\ QueryUnchanged

\* ClusteringAnalyzer.get_cluster_statistics (avg and std of the sizes are
\* left out).
get_cluster_statistics ==
    /\ result' =
          IF clusters = None
          THEN Raised("get_cluster_statistics", NoArgs, "PreconditionError")
          ELSE LET table == Val(clusters)
                   ids == {table[k].Cluster : k \in DOMAIN table}
                   sizes == {Len(ClusterRows(table, id)) : id \in ids}
               IN  Returned("get_cluster_statistics", NoArgs,
                       Some([total_clusters |-> Cardinality(ids),
                             total_products |-> Len(table),
                             min_cluster_size |-> Min(sizes),
                             max_cluster_size |-> Max(sizes)]))
    /\ QueryUnchanged

\* ClusteringAnalyzer.get_cluster_products
get_cluster_products(cluster_id) ==
    /\ result' =
          IF clusters = None
          THEN Raised("get_cluster_products", [cluster_id |-> cluster_id], "PreconditionError")
          ELSE Returned("get_cluster_products", [cluster_id |-> cluster_id],
                        Some(ClusterRows(Val(clusters), cluster_id)))
    /\ QueryUnchanged

\* ClusteringAnalyzer.calculate_cluster_coherence
calculate_cluster_coherence(cluster_id) ==
    /\ result' =
          IF clusters = None \/ ca_similarity_matrix = None
          THEN Raised("calculate_cluster_coherence", [cluster_id |-> cluster_id],
                      "PreconditionError")
          ELSE LET rows == ClusterRows(Val(clusters), cluster_id)
               IN  Returned("calculate_cluster_coherence", [cluster_id |-> cluster_id],
                            Some(Coherence(Val(ca_similarity_matrix),
                                           [k \in DOMAIN rows |-> rows[k].StockCode])))
    /\ QueryUnchanged

-----------------------------------------------------------------------------
(* Inputs of the clustering and recommendation stages.                     *)

MaxClusters == 3     \* n_clusters values tried: 1..MaxClusters
MaxTopN == 3         \* top_n values tried: 0..MaxTopN
MaxClusterId == 1    \* cluster ids asked for: 0..MaxClusterId
MaxSaves == 1        \* calls of the persistence delegate in one run
MaxClusterSize == 1  \* max_cluster_size values tried: 1..MaxClusterSize

Thresholds == {Q(1, 2)}

ClusteringArgs ==
    [n_clusters : {None} \cup {Some(k) : k \in 1..MaxClusters},
     linkage : Linkages,
     distance_threshold : {None} \cup {Some(t) : t \in Thresholds},
     max_cluster_size : {None} \cup {Some(m) : m \in 1..MaxClusterSize}]

RecommendationArgs(saves) ==
    [top_n : 0..MaxTopN,
     min_cluster_size : {1, 2},
     max_cluster_size : {1, 100},
     save_to_db : saves]

\* A transaction table from a list of baskets (sets of StockCodes): one line
\* item of quantity 1 per product of each order.
TableOf(baskets) ==
    FlattenSeq([o \in DOMAIN baskets |->
                   [k \in DOMAIN SortedSeq(baskets[o]) |->
                       [InvoiceNo |-> o, StockCode |-> SortedSeq(baskets[o])[k],
                        Quantity |-> 1]]])

PipelineTables ==
    {TableOf(bs) : bs \in SeqsUpTo(SUBSET (1..MaxProducts) \ {{}}, MaxOrders)} \ {<<>>}

-----------------------------------------------------------------------------
(* Clustering and scoring on the jaccard matrix of every pipeline table:   *)
(* the system after load_data, create_market_baskets and                   *)
(* calculate_similarity_matrix have run once, one perform_clustering with  *)
(* drawn arguments, then generate_recommendations any number of times.     *)

InitCluster ==
    \E d \in PipelineTables, s \in 1..MaxOrders :
        LET bm == BasketMatrixOf(d, s)
            sim == SimOk(bm, JaccardValues(bm)).matrix
        IN  /\ df = Some(d)
            /\ product_info = Some(create_product_info(d))
            /\ rg_product_info = Some(create_product_info(d))
            /\ basket_matrix = Some(bm)
            /\ frequent_products = Some(FrequentProducts(d, s))
            /\ sc_basket_matrix = Some(bm)
            /\ similarity_matrix = Some(sim)
            /\ clusters = None
            /\ ca_similarity_matrix = None
            /\ ca_product_info = None
            /\ db_saved = <<>>
            /\ result = Returned("calculate_similarity_matrix", [metric |-> "jaccard"],
                                 Some(sim))
            /\ input \in {Some(args) : args \in ClusteringArgs}
            /\ handlers = <<>>
            /\ running = None

ClusterDrawn ==
    /\ input # None
    /\ input' = None
    /\ UNCHANGED <<handlers, running>>
    /\ perform_clustering(Val(input))

ScoreClusters ==
    /\ input = None
    /\ UNCHANGED <<input, handlers, running>>
    /\ \E args \in RecommendationArgs({FALSE}) : generate_recommendations(args)

NextCluster == ClusterDrawn \/ ScoreClusters

SpecCluster == InitCluster /\ [][NextCluster]_vars

-----------------------------------------------------------------------------
(* The coherence of a list of stock codes:                                 *)
(* RecommendationGenerator._calculate_cluster_coherence on the jaccard     *)
(* matrix of every pipeline table, with every list of distinct stock codes *)
(* (the members of a cluster; some may be missing from the index).         *)

StockCodeLists ==
    {l \in SeqsUpTo(1..MaxProducts, MaxProducts) :
        \A i \in DOMAIN l : \A j \in DOMAIN l : i # j => l[i] # l[j]}

InitCoherence ==
    \E d \in PipelineTables, s \in 1..MaxOrders :
        LET bm == BasketMatrixOf(d, s)
            sim == SimOk(bm, JaccardValues(bm)).matrix
        IN  /\ df = Some(d)
            /\ product_info = Some(create_product_info(d))
            /\ rg_product_info = Some(create_product_info(d))
            /\ basket_matrix = Some(bm)
            /\ frequent_products = Some(FrequentProducts(d, s))
            /\ sc_basket_matrix = Some(bm)
            /\ similarity_matrix = Some(sim)
            /\ clusters = None
            /\ ca_similarity_matrix = None
            /\ ca_product_info = None
            /\ db_saved = <<>>
            /\ result = Returned("calculate_similarity_matrix", [metric |-> "jaccard"],
                                 Some(sim))
            /\ input \in {Some([stock_codes |-> l]) : l \in StockCodeLists}
            /\ handlers = <<>>
            /\ running = None

CoherenceOfList ==
    /\ input # None
    /\ input' = None
    /\ UNCHANGED <<handlers, running>>
    /\ result' = Returned("_calculate_cluster_coherence", Val(input),
                          Some(_calculate_cluster_coherence(Val(input).stock_codes)))
    /\ QueryUnchanged

NextCoherence == CoherenceOfList

SpecCoherence == InitCoherence /\ [][NextCoherence]_vars

-----------------------------------------------------------------------------
(* Reruns of the pipeline on one input: the stages of one                  *)
(* WarehouseRecommendationSystem called in any order, any number of times, *)
(* always with the same table and the same parameters.                     *)
(* AgglomerativeClustering is a function of its input: where several merge *)
(* orders tie it follows one rule, here the least or the greatest of the   *)
(* label vectors it can return.                                            *)

TieBreaks == {"first", "last"}

RECURSIVE LexLeq(_, _)
LexLeq(a, b) ==
    IF a = <<>> THEN TRUE
    ELSE IF b = <<>> THEN FALSE
    ELSE IF Head(a) # Head(b) THEN Head(a) < Head(b)
    ELSE LexLeq(Tail(a), Tail(b))

ClusterColumn(table) == [k \in DOMAIN table |-> table[k].Cluster]

\* A library whose tie-breaking depends on the calls made before: the first
\* fit takes the least label vector, every later one the greatest.
LibraryChoice_Alternating(ties, tables) ==
    CHOOSE t \in tables : \A u \in tables :
        IF clusters = None
        THEN LexLeq(ClusterColumn(t), ClusterColumn(u))
        ELSE LexLeq(ClusterColumn(u), ClusterColumn(t))

\* The table built from the label vector the library returns under rule ties.
LibraryChoice(ties, tables) ==
    CHOOSE t \in tables : \A u \in tables :
        IF ties = "first"
        THEN LexLeq(ClusterColumn(t), ClusterColumn(u))
        ELSE LexLeq(ClusterColumn(u), ClusterColumn(t))

RerunInputs ==
    [d : PipelineTables, min_support : 1..MaxOrders, metric : {"jaccard"},
     args : {a \in ClusteringArgs : a.max_cluster_size = None}, ties : TieBreaks]

InitRerun ==
    /\ df = None
    /\ product_info = None
    /\ rg_product_info = None
    /\ basket_matrix = None
    /\ frequent_products = None
    /\ sc_basket_matrix = None
    /\ similarity_matrix = None
    /\ clusters = None
    /\ ca_similarity_matrix = None
    /\ ca_product_info = None
    /\ db_saved = <<>>
    /\ result = Returned("init", NoArgs, None)
    /\ input \in {Some(i) : i \in RerunInputs}
    /\ handlers = <<>>
    /\ running = None

RerunLoadData == load_data(Val(input).d) /\ UNCHANGED <<input, handlers, running>>

RerunCreateMarketBaskets ==
    create_market_baskets(Val(input).min_support) /\ UNCHANGED <<input, handlers, running>>

RerunCalculateSimilarity ==
    calculate_similarity_matrix(Val(input).metric) /\ UNCHANGED <<input, handlers, running>>

RerunPerformClustering ==
    /\ perform_clustering(Val(input).args)
    /\ (result'.status = "ok") =>
          clusters' = Some(LibraryChoice(Val(input).ties,
                              ClusterTables(Val(similarity_matrix), Val(product_info),
                                            Val(input).args.n_clusters,
                                            Val(input).args.linkage,
                                            Val(input).args.distance_threshold)))
    /\ UNCHANGED <<input, handlers, running>>

NextRerun ==
    \/ RerunLoadData
    \/ RerunCreateMarketBaskets
    \/ RerunCalculateSimilarity
    \/ RerunPerformClustering

SpecRerun == InitRerun /\ [][NextRerun]_vars

-----------------------------------------------------------------------------
(* The worked example of four orders: O1 = {A, B}, O2 = {A, B, C},         *)
(* O3 = {A, B}, O4 = {C, D}, with A, B, C, D the StockCodes 1, 2, 3, 4.    *)
(* The stages run as in the rerun model, on the table with the orders in   *)
(* any sequence, min_support = 1.                                          *)

ScenarioOrders == <<{1, 2}, {1, 2, 3}, {1, 2}, {3, 4}>>

ScenarioTables ==
    {TableOf([k \in DOMAIN ScenarioOrders |-> ScenarioOrders[perm[k]]]) :
        perm \in Permutations(DOMAIN ScenarioOrders)}

ScenarioInputs ==
    [d : ScenarioTables, min_support : {1}, metric : {"jaccard", "lift"},
     args : {a \in ClusteringArgs : /\ a.linkage = "complete"
                                    /\ a.distance_threshold = None
                                    /\ a.max_cluster_size = None},
     ties : TieBreaks]

InitScenario ==
    /\ df = None
    /\ product_info = None
    /\ rg_product_info = None
    /\ basket_matrix = None
    /\ frequent_products = None
    /\ sc_basket_matrix = None
    /\ similarity_matrix = None
    /\ clusters = None
    /\ ca_similarity_matrix = None
    /\ ca_product_info = None
    /\ db_saved = <<>>
    /\ result = Returned("init", NoArgs, None)
    /\ input \in {Some(i) : i \in ScenarioInputs}
    /\ handlers = <<>>
    /\ running = None

SpecScenario == InitScenario /\ [][NextRerun]_vars

-----------------------------------------------------------------------------
(* The worked example of a scored cluster: members A and B (StockCodes 1   *)
(* and 2) with similarity 0.8 and total quantities 10 and 20.  Four orders *)
(* hold A and B, one holds A and C: A and B share 4 of their 5 baskets;    *)
(* each line item of A has quantity 2, of B 5, of C 1.  The stages run as  *)
(* in the rerun model, followed by generate_recommendations.               *)

StrengthOrders == <<{1, 2}, {1, 2}, {1, 2}, {1, 2}, {1, 3}>>

StrengthQuantity == <<2, 5, 1>>

StrengthTables ==
    {LET d == TableOf([k \in DOMAIN StrengthOrders |-> StrengthOrders[perm[k]]])
     IN  [i \in DOMAIN d |-> [d[i] EXCEPT !.Quantity = StrengthQuantity[d[i].StockCode]]] :
        perm \in Permutations(DOMAIN StrengthOrders)}

StrengthInputs ==
    [d : StrengthTables, min_support : {1}, metric : {"jaccard"},
     args : {a \in ClusteringArgs : /\ a.linkage = "complete"
                                    /\ a.distance_threshold = None
                                    /\ a.max_cluster_size = None},
     ties : TieBreaks]

InitStrength ==
    /\ df = None
    /\ product_info = None
    /\ rg_product_info = None
    /\ basket_matrix = None
    /\ frequent_products = None
    /\ sc_basket_matrix = None
    /\ similarity_matrix = None
    /\ clusters = None
    /\ ca_similarity_matrix = None
    /\ ca_product_info = None
    /\ db_saved = <<>>
    /\ result = Returned("init", NoArgs, None)
    /\ input \in {Some(i) : i \in StrengthInputs}
    /\ handlers = <<>>
    /\ running = None

RerunGenerateRecommendations ==
    /\ \E args \in RecommendationArgs({FALSE}) : generate_recommendations(args)
    /\ UNCHANGED <<input, handlers, running>>

NextStrength == NextRerun \/ RerunGenerateRecommendations

SpecStrength == InitStrength /\ [][NextStrength]_vars

-----------------------------------------------------------------------------
(* The cluster-count heuristic alone:                                      *)
(* ClusteringAnalyzer._determine_optimal_clusters on a distance matrix of  *)
(* every size up to MaxHeuristicProducts.                                  *)

MaxHeuristicProducts == 1100   \* sizes of the distance matrix tried

InitHeuristic ==
    /\ df = None
    /\ product_info = None
    /\ rg_product_info = None
    /\ basket_matrix = None
    /\ frequent_products = None
    /\ sc_basket_matrix = None
    /\ similarity_matrix = None
    /\ clusters = None
    /\ ca_similarity_matrix = None
    /\ ca_product_info = None
    /\ db_saved = <<>>
    /\ result = Returned("init", NoArgs, None)
    /\ input \in {Some([n_products |-> n]) : n \in 1..MaxHeuristicProducts}
    /\ handlers = <<>>
    /\ running = None

DetermineOptimalClusters ==
    /\ input # None
    /\ input' = None
    /\ UNCHANGED <<handlers, running>>
    /\ result' = Returned("_determine_optimal_clusters", Val(input),
                          Some(_determine_optimal_clusters(Val(input).n_products)))
    /\ QueryUnchanged

NextHeuristic == DetermineOptimalClusters

SpecHeuristic == InitHeuristic /\ [][NextHeuristic]_vars

-----------------------------------------------------------------------------
(* Clustering of catalogues of up to six products, large enough for three  *)
(* clusters of which one has more than three times the members of          *)
(* another: the system after load_data, create_market_baskets(1) and       *)
(* calculate_similarity_matrix('jaccard') on a table of one or two orders, *)
(* then one perform_clustering with drawn arguments.                       *)

MaxBalanceClusters == 4   \* n_clusters values tried: 1..MaxBalanceClusters

BalanceBaskets == {{1, 2, 3, 4}, {5, 6}, {1, 2, 3, 4, 5}, {4, 5, 6}}

BalanceTables == {TableOf(bs) : bs \in SeqsUpTo(BalanceBaskets, 2)} \ {<<>>}

BalanceArgs ==
    [n_clusters : {None} \cup {Some(k) : k \in 1..MaxBalanceClusters},
     linkage : {"complete"},
     distance_threshold : {None},
     max_cluster_size : {None}]

InitBalance ==
    \E d \in BalanceTables :
        LET bm == BasketMatrixOf(d, 1)
            sim == SimOk(bm, JaccardValues(bm)).matrix
        IN  /\ df = Some(d)
            /\ product_info = Some(create_product_info(d))
            /\ rg_product_info = Some(create_product_info(d))
            /\ basket_matrix = Some(bm)
            /\ frequent_products = Some(FrequentProducts(d, 1))
            /\ sc_basket_matrix = Some(bm)
            /\ similarity_matrix = Some(sim)
            /\ clusters = None
            /\ ca_similarity_matrix = None
            /\ ca_product_info = None
            /\ db_saved = <<>>
            /\ result = Returned("calculate_similarity_matrix", [metric |-> "jaccard"],
                                 Some(sim))
            /\ input \in {Some(args) : args \in BalanceArgs}
            /\ handlers = <<>>
            /\ running = None

NextBalance == ClusterDrawn

SpecBalance == InitBalance /\ [][NextBalance]_vars

-----------------------------------------------------------------------------
(* The lift metric in binary64.  LiftPair above is the value of the        *)
(* formula over the reals; the code evaluates it in doubles, one rounding  *)
(* per operation, and the roundings depend on which product is prod1.      *)

\* a / b for doubles a >= 0 and b > 0: the quotient of the mantissas with
\* two bits more than a mantissa, the remainder the sticky part.
FDivide(a, b) ==
    IF a.m = <<>> THEN FZero
    ELSE LET dm == IF LCmp(a.m, b.m) >= 0
                   THEN LDivStep(b.m, MantissaBits + 2, <<1>>, LSub(a.m, b.m))
                   ELSE LDivStep(b.m, MantissaBits + 2, <<>>, a.m)
         IN  FRound(dm.q, a.e - b.e - (MantissaBits + 2), dm.r # <<>>)

\* a - b for doubles a >= b >= 0.
FSubtract(a, b) ==
    IF b.m = <<>> THEN a
    ELSE LET lo == IF a.e < b.e THEN a.e ELSE b.e
         IN  FRound(LSub(LShl(a.m, a.e - lo), LShl(b.m, b.e - lo)), lo, FALSE)

FHalf == [m |-> FOne.m, e |-> FOne.e - 1]

\* max(0, min(1, (lift - 1) / 10 + 0.5)) for a double lift > 0.  Below 1 the
\* difference is negative: -(1 - lift), then -((1 - lift) / 10), then
\* 0.5 - (1 - lift) / 10, each rounded as its positive counterpart.
LiftToSimilarity(lift) ==
    IF FLeqOne(lift)
    THEN FSubtract(FHalf, FDivide(FSubtract(FOne, lift), FFromNat(10)))
    ELSE LET v == FAdd(FDivide(FSubtract(lift, FOne), FFromNat(10)), FHalf)
         IN  IF FLeqOne(v) THEN v ELSE FOne

\* The loop body of _calculate_lift_similarity for prod1 = column i and
\* prod2 = column j in binary64, on a matrix with at least one row.
LiftPair64(bm, i, j) ==
    LET n_transactions == Len(bm.rows)
        sum1 == Cardinality(ColumnRows(bm, i))
        sum2 == Cardinality(ColumnRows(bm, j))
        support2 == FDivide(FFromNat(sum2), FFromNat(n_transactions))
        both == Cardinality(ColumnRows(bm, i) \cap ColumnRows(bm, j))
        confidence_1_2 == IF sum1 > 0 THEN FDivide(FFromNat(both), FFromNat(sum1)) ELSE FZero
        lift == IF support2 # FZero THEN FDivide(confidence_1_2, support2) ELSE FZero
    IN  IF lift # FZero THEN LiftToSimilarity(lift) ELSE FZero

MaxLiftBaskets == 7   \* rows of the two-column basket matrices

\* Numbers of baskets with both products, with the first only, with the
\* second only and with neither: every split of up to MaxLiftBaskets
\* baskets, and one of 30 baskets in which the lift is 6.
LiftCounts ==
    {c \in (0..MaxLiftBaskets) \X (0..MaxLiftBaskets) \X (0..MaxLiftBaskets)
            \X (0..MaxLiftBaskets) :
        c[1] + c[2] + c[3] + c[4] \in 1..MaxLiftBaskets}
    \cup {<<3, 2, 0, 25>>}

\* The basket matrix of two products with these numbers of baskets.
CountedMatrix(c) ==
    [columns |-> <<1, 2>>,
     rows |-> [k \in 1..c[1] |-> <<1, 1>>] \o [k \in 1..c[2] |-> <<1, 0>>]
              \o [k \in 1..c[3] |-> <<0, 1>>] \o [k \in 1..c[4] |-> <<0, 0>>]]

InitLift ==
    /\ df = None
    /\ product_info = None
    /\ rg_product_info = None
    /\ basket_matrix = None
    /\ frequent_products = None
    /\ sc_basket_matrix = None
    /\ similarity_matrix = None
    /\ clusters = None
    /\ ca_similarity_matrix = None
    /\ ca_product_info = None
    /\ db_saved = <<>>
    /\ result = Returned("init", NoArgs, None)
    /\ input \in {Some([bm |-> CountedMatrix(c)]) : c \in LiftCounts}
    /\ handlers = <<>>
    /\ running = None

\* The entry [0, 1] that _calculate_lift_similarity computes for the two
\* columns, the first as prod1.
LiftSimilarityOfPair ==
    /\ input # None
    /\ input' = None
    /\ UNCHANGED <<handlers, running>>
    /\ result' = Returned("_calculate_lift_similarity", Val(input),
                          Some(LiftPair64(Val(input).bm, 1, 2)))
    /\ QueryUnchanged

NextLift == LiftSimilarityOfPair

SpecLift == InitLift /\ [][NextLift]_vars

-----------------------------------------------------------------------------
(* SimilarityCalculator queries on the jaccard matrix of every pipeline    *)
(* table.                                                                  *)

\* similarity_matrix[product] without the entry of product itself: one
\* [product, similarity] entry per other product of the index.
OtherProducts(sim, product) ==
    LET pos == CHOOSE k \in DOMAIN sim.index : sim.index[k] = product
        others == SelectSeq(sim.index, LAMBDA q : q # product)
        at(q) == CHOOSE k \in DOMAIN sim.index : sim.index[k] = q
    IN  [k \in DOMAIN others |->
            [product |-> others[k], similarity |-> sim.values[at(others[k])][pos]]]

\* The orders sort_values(ascending=False) can give: descending by
\* similarity; the default quicksort keeps no order among equal values.
DescendingOrders(entries) ==
    {[k \in DOMAIN entries |-> entries[perm[k]]] : perm \in
        {pm \in Permutations(DOMAIN entries) :
            \A a \in DOMAIN entries : \A b \in DOMAIN entries :
                a < b => QLeq(entries[pm[b]].similarity, entries[pm[a]].similarity)}}

\* A query that keeps the sorted column as it is, the product itself
\* included.
MostSimilar_KeepsSelf(sim, product, top_n) ==
    LET pos == CHOOSE k \in DOMAIN sim.index : sim.index[k] = product
        column == [k \in DOMAIN sim.index |->
                     [product |-> sim.index[k], similarity |-> sim.values[k][pos]]]
    IN  {TopSlice(sorted, top_n) : sorted \in DescendingOrders(column)}

\* What get_most_similar_products can return for a product of the index:
\* the column sorted descending, the product itself removed, head(top_n).
MostSimilar(sim, product, top_n) ==
    {TopSlice(sorted, top_n) : sorted \in DescendingOrders(OtherProducts(sim, product))}

\* SimilarityCalculator.get_most_similar_products
get_most_similar_products(product, top_n) ==
    /\ IF similarity_matrix = None
       THEN result' = Raised("get_most_similar_products",
                             [product |-> product, top_n |-> top_n], "PreconditionError")
       ELSE IF product \notin Range(Val(similarity_matrix).index)
       THEN result' = Raised("get_most_similar_products",
                             [product |-> product, top_n |-> top_n], "UnknownProductError")
       ELSE \E similarities \in MostSimilar(Val(similarity_matrix), product, top_n) :
                result' = Returned("get_most_similar_products",
                                   [product |-> product, top_n |-> top_n], Some(similarities))
    /\ QueryUnchanged

\* np.triu(values, k=1) read row by row: the entries above the diagonal.
UpperTriangle(sim) ==
    FlattenSeq([i \in DOMAIN sim.index |->
                   [k \in 1..(Len(sim.index) - i) |-> sim.values[i][i + k]]])

\* The stats of get_similarity_statistics: similarities are the entries of
\* the upper triangle that are > 0.  None when there is none: np.min of an
\* empty array raises.  median and std are left out.
SimilarityStatistics(sim) ==
    LET similarities == SelectSeq(UpperTriangle(sim), LAMBDA v : QLess(QZero, v))
    IN  IF similarities = <<>> THEN None
        ELSE Some([mean_similarity |-> QDiv(QSum(similarities), Q(Len(similarities), 1)),
                   min_similarity |->
                        CHOOSE v \in Range(similarities) :
                            \A w \in Range(similarities) : QLeq(v, w),
                   max_similarity |->
                        CHOOSE v \in Range(similarities) :
                            \A w \in Range(similarities) : QLeq(w, v),
                   high_similarity_pairs |->
                        Len(SelectSeq(similarities, LAMBDA v : QLess(Q(1, 2), v))),
                   total_pairs |-> Len(similarities)])

\* SimilarityCalculator.get_similarity_statistics
get_similarity_statistics ==
    /\ result' =
          IF similarity_matrix = None
          THEN Raised("get_similarity_statistics", NoArgs, "PreconditionError")
          ELSE IF SimilarityStatistics(Val(similarity_matrix)) = None
          THEN Raised("get_similarity_statistics", NoArgs, "LibraryError")
          ELSE Returned("get_similarity_statistics", NoArgs,
                        SimilarityStatistics(Val(similarity_matrix)))
    /\ QueryUnchanged

QueryInputs == [product : 1..MaxProducts, top_n : 0..MaxTopN]

InitQuery ==
    \E d \in PipelineTables, s \in 1..MaxOrders :
        LET bm == BasketMatrixOf(d, s)
            sim == SimOk(bm, JaccardValues(bm)).matrix
        IN  /\ df = Some(d)
            /\ product_info = Some(create_product_info(d))
            /\ rg_product_info = Some(create_product_info(d))
            /\ basket_matrix = Some(bm)
            /\ frequent_products = Some(FrequentProducts(d, s))
            /\ sc_basket_matrix = Some(bm)
            /\ similarity_matrix = Some(sim)
            /\ clusters = None
            /\ ca_similarity_matrix = None
            /\ ca_product_info = None
            /\ db_saved = <<>>
            /\ result = Returned("calculate_similarity_matrix", [metric |-> "jaccard"],
                                 Some(sim))
            /\ input \in {Some(i) : i \in QueryInputs}
            /\ handlers = <<>>
            /\ running = None

GetMostSimilarProducts ==
    /\ input # None
    /\ input' = None
    /\ UNCHANGED <<handlers, running>>
    /\ get_most_similar_products(Val(input).product, Val(input).top_n)

GetSimilarityStatistics ==
    /\ input # None
    /\ input' = None
    /\ UNCHANGED <<handlers, running>>
    /\ get_similarity_statistics

NextQuery == GetMostSimilarProducts \/ GetSimilarityStatistics

SpecQuery == InitQuery /\ [][NextQuery]_vars

-----------------------------------------------------------------------------
(* The modules composed by hand, without the orchestrator: a               *)
(* SimilarityCalculator that has computed the jaccard matrix of a table, a *)
(* ClusteringAnalyzer and a RecommendationGenerator built on the two.      *)
(* perform_clustering gets the product info of the table;                  *)
(* set_product_info gives the scorer any metadata table, or is not called. *)
(* generate_recommendations is called with or without a db_handler.        *)

ScorerBaskets == {{1, 2}, {1, 2, 3}, {3}}

ScorerTables ==
    {TableOf(<<{1, 2, 3}, {1, 2}>>), TableOf(<<{1, 2, 3}, {3}>>), TableOf(<<{1, 2}, {3}>>)}

\* The metadata tables given to set_product_info.
ScorerMetadata == {create_product_info(TableOf(<<b>>)) : b \in ScorerBaskets}

ScorerInputs ==
    [d : ScorerTables,
     args : {a \in ClusteringArgs : /\ a.linkage = "complete"
                                    /\ a.n_clusters # Some(1)
                                    /\ a.distance_threshold = None
                                    /\ a.max_cluster_size = None}]

\* generate_recommendations arguments; db_handler says that a handler is
\* passed.
ScorerArgs ==
    [top_n : {1, MaxTopN},
     min_cluster_size : {1, 2},
     max_cluster_size : {100},
     save_to_db : BOOLEAN,
     db_handler : BOOLEAN]

InitScorer ==
    \E i \in ScorerInputs :
        LET bm == BasketMatrixOf(i.d, 1)
            sim == SimOk(bm, JaccardValues(bm)).matrix
        IN  /\ df = None
            /\ product_info = None
            /\ rg_product_info = None
            /\ basket_matrix = Some(bm)
            /\ frequent_products = Some(FrequentProducts(i.d, 1))
            /\ sc_basket_matrix = Some(bm)
            /\ similarity_matrix = Some(sim)
            /\ clusters = None
            /\ ca_similarity_matrix = None
            /\ ca_product_info = None
            /\ db_saved = <<>>
            /\ result = Returned("sc.calculate_similarity_matrix", [metric |-> "jaccard"],
                                 Some(sim))
            /\ input = Some(i)
            /\ handlers = <<>>
            /\ running = None

\* RecommendationGenerator.set_product_info
set_product_info(pinfo) ==
    /\ rg_product_info' = Some(pinfo)
    /\ result' = Returned("set_product_info", NoArgs, None)
    /\ UNCHANGED <<df, product_info, basket_matrix, frequent_products, sc_basket_matrix,
                   similarity_matrix, clusters, ca_similarity_matrix, ca_product_info,
                   db_saved>>

ScorerSetProductInfo ==
    \E pinfo \in ScorerMetadata : set_product_info(pinfo) /\ UNCHANGED <<input, handlers, running>>

ScorerPerformClustering ==
    /\ ca_perform_clustering("ca.perform_clustering", Val(input).args,
                             Val(similarity_matrix), create_product_info(Val(input).d))
    /\ UNCHANGED <<input, handlers, running>>

ScorerGenerateRecommendations ==
    \E args \in ScorerArgs :
        /\ (args.save_to_db /\ args.db_handler) => Len(db_saved) < MaxSaves
        /\ rg_generate_recommendations("rg.generate_recommendations", args, args.db_handler)
        /\ UNCHANGED <<input, handlers, running>>

NextScorer ==
    \/ ScorerSetProductInfo
    \/ ScorerPerformClustering
    \/ ScorerGenerateRecommendations

SpecScorer == InitScorer /\ [][NextScorer]_vars

-----------------------------------------------------------------------------
(* The orchestrator: any sequence of calls on one                          *)
(* WarehouseRecommendationSystem, over a catalogue of two tables.          *)

Catalogue ==
    {TableOf(<<{1, 2, 3}, {2, 3}>>), TableOf(<<{1, 2}>>)}

LoadData == \E d \in Catalogue : load_data(d) /\ UNCHANGED <<input, handlers, running>>

\* WarehouseRecommendationSystem.load_data when the handler returns None
\* (the query failed): df becomes None, product_info stays.
LoadDataFails ==
    /\ df' = None
    /\ result' = Returned("load_data", NoArgs, None)
    /\ UNCHANGED <<product_info, rg_product_info, basket_matrix, frequent_products,
                   sc_basket_matrix, similarity_matrix, clusters, ca_similarity_matrix,
                   ca_product_info, db_saved, input, handlers, running>>

PipelineSupports == {1}

CreateMarketBaskets ==
    \E s \in PipelineSupports : create_market_baskets(s) /\ UNCHANGED <<input, handlers, running>>

PipelineMetrics == {"jaccard", "euclidean"}

CalculateSimilarity ==
    \E m \in PipelineMetrics : calculate_similarity_matrix(m) /\ UNCHANGED <<input, handlers, running>>

PipelineClusteringArgs ==
    {a \in ClusteringArgs : /\ a.linkage = "complete"
                            /\ a.n_clusters \in {None, Some(MaxClusters)}
                            /\ a.distance_threshold = None
                            /\ a.max_cluster_size = None}

PerformClustering ==
    \E args \in PipelineClusteringArgs : perform_clustering(args) /\ UNCHANGED <<input, handlers, running>>

GenerateRecommendations ==
    \E args \in {a \in RecommendationArgs(BOOLEAN) :
                    a.top_n = MaxTopN /\ a.min_cluster_size = 1 /\ a.max_cluster_size = 100} :
        /\ args.save_to_db => Len(db_saved) < MaxSaves
        /\ generate_recommendations(args)
        /\ UNCHANGED <<input, handlers, running>>

GetClusters == get_clusters /\ UNCHANGED <<input, handlers, running>>
GetClusterAnalysis == get_cluster_analysis /\ UNCHANGED <<input, handlers, running>>
GetClusterStatistics == get_cluster_statistics /\ UNCHANGED <<input, handlers, running>>
GetClusterProducts ==
    \E id \in 0..MaxClusterId : get_cluster_products(id) /\ UNCHANGED <<input, handlers, running>>
CalculateClusterCoherence ==
    \E id \in 0..MaxClusterId : calculate_cluster_coherence(id) /\ UNCHANGED <<input, handlers, running>>

Next ==
    \/ LoadData
    \/ LoadDataFails
    \/ CreateMarketBaskets
    \/ CalculateSimilarity
    \/ PerformClustering
    \/ GenerateRecommendations
    \/ GetClusters
    \/ GetClusterAnalysis
    \/ GetClusterStatistics
    \/ GetClusterProducts
    \/ CalculateClusterCoherence

Spec == Init /\ [][Next]_vars

-----------------------------------------------------------------------------
(* The later stages on one loaded catalogue: a                             *)
(* WarehouseRecommendationSystem after load_data and                       *)
(* create_market_baskets(1), then calculate_similarity_matrix with the     *)
(* jaccard or the lift metric, perform_clustering and                      *)
(* generate_recommendations in any order, any number of times.             *)

StageMetrics == {"jaccard", "lift"}

InitStages ==
    \E d \in PipelineTables :
        /\ df = Some(d)
        /\ product_info = Some(create_product_info(d))
        /\ rg_product_info = Some(create_product_info(d))
        /\ basket_matrix = Some(BasketMatrixOf(d, 1))
        /\ frequent_products = Some(FrequentProducts(d, 1))
        /\ sc_basket_matrix = None
        /\ similarity_matrix = None
        /\ clusters = None
        /\ ca_similarity_matrix = None
        /\ ca_product_info = None
        /\ db_saved = <<>>
        /\ result = Returned("create_market_baskets", [min_support |-> 1],
                             Some(BasketMatrixOf(d, 1)))
        /\ input = None
        /\ handlers = <<>>
        /\ running = None

StagesCalculateSimilarity ==
    \E m \in StageMetrics : calculate_similarity_matrix(m) /\ UNCHANGED <<input, handlers, running>>

NextStages ==
    \/ StagesCalculateSimilarity
    \/ PerformClustering
    \/ GenerateRecommendations

SpecStages == InitStages /\ [][NextStages]_vars

-----------------------------------------------------------------------------
(* The HTTP layer: the one module-level WarehouseRecommendationSystem, the *)
(* requests in flight on /test/quick and /pipeline/full, and the event     *)
(* loop that runs their handlers.  A handler is a coroutine: the loop runs *)
(* it until it awaits or finishes, and then runs any handler that has not  *)
(* finished.  quick_test and run_full_pipeline make the same five stage    *)
(* calls and contain no await.                                             *)

MaxRequests == 2     \* HTTP requests in flight

Endpoints == {"quick_test", "run_full_pipeline"}

\* QuickTestRequest and FullPipelineRequest, scaled to the tables of the
\* catalogue; limit selects what load_data returns and is drawn there.
RequestBodies ==
    [endpoint : Endpoints,
     min_support : PipelineSupports,
     n_clusters : {1, MaxClusters},
     top_n : {MaxTopN},
     max_cluster_size : {100},
     save_to_db : BOOLEAN]

\* ApiResponse(success, data["recommendations"]) and the HTTPException of
\* the except branch.
ApiResponse(success, recommendations) ==
    [status_code |-> 200, success |-> success, recommendations |-> recommendations]
HTTPException == [status_code |-> 500, success |-> FALSE, recommendations |-> None]

StagePositions ==
    {"load_data", "create_market_baskets", "calculate_similarity_matrix",
     "perform_clustering", "generate_recommendations"}

InitApp ==
    /\ df = None
    /\ product_info = None
    /\ rg_product_info = None
    /\ basket_matrix = None
    /\ frequent_products = None
    /\ sc_basket_matrix = None
    /\ similarity_matrix = None
    /\ clusters = None
    /\ ca_similarity_matrix = None
    /\ ca_product_info = None
    /\ db_saved = <<>>
    /\ result = Returned("init", NoArgs, None)
    /\ input = None
    /\ handlers \in [1..MaxRequests ->
                        [request : RequestBodies, pc : {"pending"}, df : {None},
                         response : {None}]]
    /\ running = None

\* A handler that awaits after every stage call: it gives the loop back
\* between two of its statements.
LoopAfter_AwaitsBetweenStages(r, finished) == None

\* What the event loop runs after a statement of the handler of request r:
\* the same handler until it has finished, for it has no await.
LoopAfter(r, finished) == IF finished THEN None ELSE Some(r)

\* The event loop starts or resumes a handler that has not finished.
EventLoopRuns(r) ==
    /\ running = None
    /\ handlers[r].pc # "responded"
    /\ running' = Some(r)
    /\ handlers' = [handlers EXCEPT ![r].pc = IF @ = "pending" THEN "load_data" ELSE @]
    /\ UNCHANGED <<df, product_info, rg_product_info, basket_matrix, frequent_products,
                   sc_basket_matrix, similarity_matrix, clusters, ca_similarity_matrix,
                   ca_product_info, db_saved, result, input>>

\* The handler after a stage call that follows load_data: the except branch
\* when the call raised, the response after the last call, the next call
\* otherwise.
AfterStage(r, next) ==
    LET raised == result'.status = "raised"
        finished == raised \/ next = "responded"
    IN  /\ handlers' = [handlers EXCEPT
                           ![r].pc = IF finished THEN "responded" ELSE next,
                           ![r].response = IF raised THEN Some(HTTPException)
                                           ELSE IF finished
                                                THEN Some(ApiResponse(TRUE, result'.value))
                                                ELSE None]
        /\ running' = LoopAfter(r, finished)
        /\ UNCHANGED input

\* df = recommender_system.load_data(limit=request.limit), a table returned
HandlerLoadData(r) ==
    /\ running = Some(r)
    /\ handlers[r].pc = "load_data"
    /\ \E d \in Catalogue :
          /\ load_data(d)
          /\ handlers' = [handlers EXCEPT ![r].pc = "create_market_baskets",
                                          ![r].df = Some(d)]
    /\ running' = LoopAfter(r, FALSE)
    /\ UNCHANGED input

\* df = recommender_system.load_data(limit=request.limit), None returned:
\* the handler answers success=False.
HandlerLoadDataFails(r) ==
    /\ running = Some(r)
    /\ handlers[r].pc = "load_data"
    /\ df' = None
    /\ result' = Returned("load_data", NoArgs, None)
    /\ handlers' = [handlers EXCEPT ![r].pc = "responded",
                                    ![r].response = Some(ApiResponse(FALSE, None))]
    /\ running' = LoopAfter(r, TRUE)
    /\ UNCHANGED <<product_info, rg_product_info, basket_matrix, frequent_products,
                   sc_basket_matrix, similarity_matrix, clusters, ca_similarity_matrix,
                   ca_product_info, db_saved, input>>

HandlerCreateMarketBaskets(r) ==
    /\ running = Some(r)
    /\ handlers[r].pc = "create_market_baskets"
    /\ create_market_baskets(handlers[r].request.min_support)
    /\ AfterStage(r, "calculate_similarity_matrix")

HandlerCalculateSimilarity(r) ==
    /\ running = Some(r)
    /\ handlers[r].pc = "calculate_similarity_matrix"
    /\ calculate_similarity_matrix("jaccard")
    /\ AfterStage(r, "perform_clustering")

HandlerPerformClustering(r) ==
    /\ running = Some(r)
    /\ handlers[r].pc = "perform_clustering"
    /\ perform_clustering([n_clusters |-> Some(handlers[r].request.n_clusters),
                           linkage |-> "complete",
                           distance_threshold |-> None,
                           max_cluster_size |-> None])
    /\ AfterStage(r, "generate_recommendations")

\* The arguments both handlers pass to generate_recommendations.
HandlerRecommendationArgs(request) ==
    [top_n |-> request.top_n,
     min_cluster_size |-> 2,
     max_cluster_size |-> request.max_cluster_size,
     save_to_db |-> request.save_to_db]

HandlerGenerateRecommendations(r) ==
    /\ running = Some(r)
    /\ handlers[r].pc = "generate_recommendations"
    /\ generate_recommendations(HandlerRecommendationArgs(handlers[r].request))
    /\ AfterStage(r, "responded")

NextApp ==
    \E r \in 1..MaxRequests :
        \/ EventLoopRuns(r)
        \/ HandlerLoadData(r)
        \/ HandlerLoadDataFails(r)
        \/ HandlerCreateMarketBaskets(r)
        \/ HandlerCalculateSimilarity(r)
        \/ HandlerPerformClustering(r)
        \/ HandlerGenerateRecommendations(r)

SpecApp == InitApp /\ [][NextApp]_vars

-----------------------------------------------------------------------------
(* Basket builder properties.                                              *)

CreatedBaskets == result.op = "create_market_baskets" /\ result.status = "ok"

\* The number of distinct orders of table d that contain product p.
OrdersContaining(d, p) ==
    Cardinality({d[i].InvoiceNo : i \in {j \in DOMAIN d : d[j].StockCode = p}})

\* C5: every row of the basket matrix returned by create_market_baskets has
\* at least 2 cells set to 1.
C5_RowsHaveTwoCells ==
    CreatedBaskets =>
        \A k \in DOMAIN Val(result.value).rows : SumSeq(Val(result.value).rows[k]) >= 2

\* C6: every column of the returned basket matrix is a product that appears
\* in at least min_support distinct orders of the input.
C6_ColumnsMeetOrderSupport ==
    CreatedBaskets =>
        \A p \in Range(Val(result.value).columns) :
            OrdersContaining(Val(df), p) >= result.args.min_support

\* C7: create_market_baskets never returns a matrix with zero rows: when no
\* basket survives filtering it fails with EmptyResultError.
C7_EmptyResultRaises ==
    result.op = "create_market_baskets" =>
        \/ result.status = "raised" /\ result.error = "EmptyResultError"
        \/ result.status = "ok" /\ Len(Val(result.value).rows) > 0

-----------------------------------------------------------------------------
(* Similarity engine properties.                                           *)

ComputedSimilarity ==
    /\ result.op \in {"sc.calculate_similarity_matrix", "calculate_similarity_matrix"}
    /\ result.status = "ok"

\* 0 <= v <= 1 for an entry v computed under metric: a double under cosine
\* (doubles of the model are not negative), a rational otherwise.
InUnitInterval(metric, v) ==
    IF metric = "cosine" THEN FLeqOne(v) ELSE QLeq(QZero, v) /\ QLeq(v, QOne)

\* C1: the similarity matrix is symmetric under every metric: the entry of
\* (i, j) equals the entry of (j, i).
C1_Symmetric ==
    ComputedSimilarity =>
        LET M == Val(result.value).values
        IN  \A i \in DOMAIN M : \A j \in DOMAIN M : M[i][j] = M[j][i]

\* A lift matrix of two products whose off-diagonal entries are equal and
\* not zero.
C1_Witness ==
    /\ ComputedSimilarity
    /\ result.args.metric = "lift"
    /\ Len(Val(result.value).index) = 2
    /\ Val(result.value).values[1][2] # QZero
    /\ Val(result.value).values[1][2] = Val(result.value).values[2][1]

\* C2: every entry of a computed similarity matrix is in [0, 1], the
\* diagonal and the columns that are all zero included.
C2_EntriesInUnitInterval ==
    ComputedSimilarity =>
        LET M == Val(result.value).values
        IN  \A i \in DOMAIN M : \A j \in DOMAIN M :
                InUnitInterval(result.args.metric, M[i][j])

\* C8: a call with a metric that is not supported fails and leaves the
\* engine's stored basket matrix and similarity matrix as they were.
C8_InvalidMetricKeepsState ==
    [][(result'.status = "raised" /\ result'.error = "InvalidMetricError")
         => (sc_basket_matrix' = sc_basket_matrix /\ similarity_matrix' = similarity_matrix)]_vars

-----------------------------------------------------------------------------
(* Clustering and recommendation properties.                               *)

Clustered == result.op = "perform_clustering" /\ result.status = "ok"

Scored == result.op = "generate_recommendations" /\ result.status = "ok"

\* The first row of the cluster table that has cluster_id: clusters are
\* processed in the order of these rows.
FirstRow(table, cluster_id) == Min({k \in DOMAIN table : table[k].Cluster = cluster_id})

\* C3: after perform_clustering succeeds, every product of the similarity
\* matrix's index is in exactly one row of the cluster table, with one
\* cluster id, and the table has no other product.
C3_ClustersPartitionIndex ==
    Clustered =>
        LET table == Val(clusters)
            index == Val(similarity_matrix).index
        IN  /\ \A p \in Range(index) :
                   Cardinality({k \in DOMAIN table : table[k].StockCode = p}) = 1
            /\ \A k \in DOMAIN table :
                   table[k].StockCode \in Range(index) /\ table[k].Cluster \in Nat

\* A clustering of an index of at least 2 products while product_info has a
\* product that the index does not have.
C3_Witness ==
    /\ Clustered
    /\ Len(Val(similarity_matrix).index) >= 2
    /\ Len(Val(product_info)) > Len(Val(similarity_matrix).index)
    /\ Len(Val(clusters)) = Len(Val(similarity_matrix).index)

\* C4: the list generate_recommendations returns has at most top_n records,
\* in descending order of recommendation_strength, and records of equal
\* strength are in the order in which their clusters were processed.
C4_SortedStableTopN ==
    Scored =>
        LET R == Val(result.value)
            table == Val(clusters)
        IN  /\ Len(R) <= result.args.top_n
            /\ \A i \in DOMAIN R : \A j \in DOMAIN R :
                   i < j =>
                      /\ ~StrengthLess(R[i].recommendation_strength,
                                       R[j].recommendation_strength)
                      /\ StrengthEqual(R[i].recommendation_strength,
                                       R[j].recommendation_strength)
                            => FirstRow(table, R[i].cluster_id)
                                  < FirstRow(table, R[j].cluster_id)

\* Three clusters in the size window, top_n = 2: the two records returned
\* have equal strength and are in processing order.
C4_Witness ==
    /\ Scored
    /\ result.args.top_n = 2
    /\ result.args.min_cluster_size = 1
    /\ Cardinality({Val(clusters)[k].Cluster : k \in DOMAIN Val(clusters)}) = 3
    /\ Len(Val(result.value)) = 2
    /\ StrengthEqual(Val(result.value)[1].recommendation_strength,
                     Val(result.value)[2].recommendation_strength)
    /\ FirstRow(Val(clusters), Val(result.value)[1].cluster_id)
          < FirstRow(Val(clusters), Val(result.value)[2].cluster_id)

ClusterQueries ==
    {"get_clusters", "get_cluster_analysis", "get_cluster_statistics",
     "get_cluster_products", "calculate_cluster_coherence", "generate_recommendations"}

\* C9: while perform_clustering has never succeeded (clusters is assigned
\* only when it succeeds), every cluster query and generate_recommendations
\* raise PreconditionError, and the persistence delegate has not been called.
C9_QueriesNeedClustering ==
    clusters = None =>
        /\ db_saved = <<>>
        /\ result.op \in ClusterQueries =>
              result.status = "raised" /\ result.error = "PreconditionError"

\* generate_recommendations with save_to_db raised after a perform_clustering
\* that failed.
C9_Witness ==
    /\ clusters = None
    /\ ca_similarity_matrix # None
    /\ result.op = "generate_recommendations"
    /\ result.args.save_to_db
    /\ result.status = "raised"
    /\ db_saved = <<>>

\* The StockCode and Cluster columns of a cluster table.
Assignment(table) ==
    [k \in DOMAIN table |-> [StockCode |-> table[k].StockCode, Cluster |-> table[k].Cluster]]

\* C10: in every reachable state the stored similarity matrix is one computed
\* from the stored basket matrix, and the stored cluster assignment is one
\* computed from the stored similarity matrix.
C10_NoStaleResults ==
    /\ similarity_matrix # None =>
          /\ basket_matrix # None
          /\ \E m \in Metrics : \E out \in SimilarityOutcomes(Val(basket_matrix), m) :
                out.ok /\ out.matrix = Val(similarity_matrix)
    /\ clusters # None =>
          /\ similarity_matrix # None
          /\ \E args \in ClusteringArgs :
                \E t \in ClusterTables(Val(similarity_matrix), <<>>, args.n_clusters,
                                       args.linkage, args.distance_threshold) :
                    Assignment(t) = Assignment(Val(clusters))


-----------------------------------------------------------------------------
(* Orchestration properties.                                               *)

\* The results the stages store.
StageResults ==
    <<df, product_info, rg_product_info, basket_matrix, frequent_products,
      sc_basket_matrix, similarity_matrix, clusters, ca_similarity_matrix,
      ca_product_info, db_saved>>

Succeeded(r, op) == r.op = op /\ r.status = "ok"

FailedPrecondition(r, op) ==
    r.op = op /\ r.status = "raised" /\ r.error = "PreconditionError"

\* C11: the flow is linear.  Each stage succeeds only when the result of its
\* predecessor is stored, each stored result is written only by a successful
\* call of its own stage (so the predecessor has run), and a call whose
\* predecessor result is missing raises PreconditionError and leaves every
\* stored result as it was.
C11_LinearFlow ==
    [][/\ Succeeded(result', "create_market_baskets") => df # None
       /\ Succeeded(result', "calculate_similarity_matrix") => basket_matrix # None
       /\ Succeeded(result', "perform_clustering") =>
              similarity_matrix # None /\ product_info # None
       /\ Succeeded(result', "generate_recommendations") => clusters # None
       /\ (df' # df /\ df' # None) => result' = Returned("load_data", NoArgs, df')
       /\ product_info' # product_info => Succeeded(result', "load_data")
       /\ basket_matrix' # basket_matrix => Succeeded(result', "create_market_baskets")
       /\ similarity_matrix' # similarity_matrix =>
              Succeeded(result', "calculate_similarity_matrix")
       /\ clusters' # clusters => Succeeded(result', "perform_clustering")
       /\ (result'.op = "create_market_baskets" /\ df = None) =>
              FailedPrecondition(result', "create_market_baskets")
              /\ StageResults' = StageResults
       /\ (result'.op = "calculate_similarity_matrix" /\ basket_matrix = None) =>
              FailedPrecondition(result', "calculate_similarity_matrix")
              /\ StageResults' = StageResults
       /\ (result'.op = "perform_clustering"
              /\ (similarity_matrix = None \/ product_info = None)) =>
              FailedPrecondition(result', "perform_clustering")
              /\ StageResults' = StageResults
       /\ (result'.op = "generate_recommendations" /\ clusters = None) =>
              FailedPrecondition(result', "generate_recommendations")
              /\ StageResults' = StageResults]_vars

\* perform_clustering called after load_data and create_market_baskets but
\* before any similarity matrix was computed.
C11_Witness ==
    /\ FailedPrecondition(result, "perform_clustering")
    /\ df # None
    /\ basket_matrix # None
    /\ similarity_matrix = None
    /\ clusters = None


\* Two cluster tables hold the same partition: the same products, and two
\* products share a cluster in one exactly when they do in the other.
SamePartition(t, u) ==
    /\ {t[k].StockCode : k \in DOMAIN t} = {u[k].StockCode : k \in DOMAIN u}
    /\ \A i \in DOMAIN t : \A j \in DOMAIN t : \A k \in DOMAIN u : \A l \in DOMAIN u :
           (t[i].StockCode = u[k].StockCode /\ t[j].StockCode = u[l].StockCode) =>
              ((t[i].Cluster = t[j].Cluster) <=> (u[k].Cluster = u[l].Cluster))

-----------------------------------------------------------------------------
(* Coherence properties.                                                   *)

\* The entry of products p and q of a similarity matrix.
SimilarityOf(sim, p, q) ==
    sim.values[CHOOSE k \in DOMAIN sim.index : sim.index[k] = p]
              [CHOOSE k \in DOMAIN sim.index : sim.index[k] = q]

\* The unordered pairs of distinct members that are both in the index.
IndexedPairs(sim, members) ==
    {S \in SUBSET (members \cap Range(sim.index)) : Cardinality(S) = 2}

RECURSIVE TotalSimilarity(_, _)
TotalSimilarity(sim, pairs) ==
    IF pairs = {} THEN QZero
    ELSE LET S == CHOOSE x \in pairs : TRUE
         IN  QAdd(SimilarityOf(sim, Min(S), Max(S)), TotalSimilarity(sim, pairs \ {S}))

\* value is the coherence of a cluster with these members under sim.
IsCoherence(value, sim, members) ==
    IF Cardinality(members) < 2 \/ IndexedPairs(sim, members) = {}
    THEN value = QZero
    ELSE QMul(value, Q(Cardinality(IndexedPairs(sim, members)), 1))
            = TotalSimilarity(sim, IndexedPairs(sim, members))

\* C13: the coherence of a cluster is the mean similarity of the unordered
\* pairs of distinct members that the similarity index has; it is 0 for
\* fewer than 2 members and when no pair is indexed; a member missing from
\* the index is skipped and the call returns.  Checked for the scorer's
\* function, for the coherence_score of every record it returns, and for
\* the analyzer's query.
C13_CoherenceIsMeanOfIndexedPairs ==
    /\ result.op = "_calculate_cluster_coherence" =>
          /\ result.status = "ok"
          /\ IsCoherence(Val(result.value), Val(similarity_matrix),
                         Range(result.args.stock_codes))
    /\ Scored =>
          \A i \in DOMAIN Val(result.value) :
              IsCoherence(Val(result.value)[i].coherence_score, Val(similarity_matrix),
                          {r.StockCode : r \in Range(ClusterRows(Val(clusters),
                                                    Val(result.value)[i].cluster_id))})
    /\ Succeeded(result, "calculate_cluster_coherence") =>
          IsCoherence(Val(result.value), Val(ca_similarity_matrix),
                      {r.StockCode : r \in Range(ClusterRows(Val(clusters),
                                                              result.args.cluster_id))})

\* Three members, one of them missing from an index of two products: the
\* coherence is the similarity of the two that are indexed, and not 0.
C13_Witness ==
    /\ result.op = "_calculate_cluster_coherence"
    /\ Len(result.args.stock_codes) = 3
    /\ Len(Val(similarity_matrix).index) = 2
    /\ Val(result.value) = Val(similarity_matrix).values[1][2]
    /\ Val(result.value) # QZero


-----------------------------------------------------------------------------
(* Properties of the worked example of four orders.                        *)

JaccardComputed ==
    Succeeded(result, "calculate_similarity_matrix") /\ result.args.metric = "jaccard"

\* C14: in the example, the frequent products are A, B, C, D, the basket
\* matrix has a row for each of the four orders, jaccard(A, B) = 1 and
\* jaccard(A, C) = 1/4.
C14_ExampleJaccard ==
    /\ basket_matrix # None =>
          /\ Val(frequent_products) = {1, 2, 3, 4}
          /\ Val(basket_matrix).columns = <<1, 2, 3, 4>>
          /\ Len(Val(basket_matrix).rows) = 4
    /\ JaccardComputed =>
          /\ Val(result.value).index = <<1, 2, 3, 4>>
          /\ SimilarityOf(Val(result.value), 1, 2) = QOne
          /\ SimilarityOf(Val(result.value), 1, 3) = Q(1, 4)

\* The jaccard matrix of the example: A and C, baskets of both orders with
\* C among the four baskets of A or C.
C14_Witness ==
    /\ JaccardComputed
    /\ Len(Val(basket_matrix).rows) = 4
    /\ Val(similarity_matrix).values[1][3] = Q(1, 4)
    /\ Val(similarity_matrix).values[3][1] = Q(1, 4)

\* C15, as stated: in the example jaccard(C, D) = 1.
C15_ExampleJaccardCD_One ==
    JaccardComputed => SimilarityOf(Val(result.value), 3, 4) = QOne

\* C15, amended: in the example jaccard(C, D) = 1/2: one basket (O4) has
\* both, two baskets (O2, O4) have either.
C15_ExampleJaccardCD_Half ==
    JaccardComputed => SimilarityOf(Val(result.value), 3, 4) = Q(1, 2)

\* The entry of C and D after the jaccard matrix of the example was computed.
C15_Witness ==
    /\ JaccardComputed
    /\ Val(basket_matrix).columns = <<1, 2, 3, 4>>
    /\ Cardinality(ColumnRows(Val(basket_matrix), 3)) = 2
    /\ Cardinality(ColumnRows(Val(basket_matrix), 4)) = 1
    /\ Val(similarity_matrix).values[3][4] = Q(1, 2)


-----------------------------------------------------------------------------
(* Properties of the worked example of a scored cluster.                   *)

\* The StockCodes of the members of a cluster.
MembersOf(table, cluster_id) == {r.StockCode : r \in Range(ClusterRows(table, cluster_id))}

\* The sum of TotalQuantity over the rows of pinfo for these StockCodes.
RECURSIVE QuantityOf(_, _)
QuantityOf(pinfo, members) ==
    IF pinfo = <<>> THEN 0
    ELSE (IF Head(pinfo).StockCode \in members THEN Head(pinfo).TotalQuantity ELSE 0)
         + QuantityOf(Tail(pinfo), members)

\* C16: a record whose members have product metadata has
\* total_quantity_sold = the sum of their total quantities and
\* recommendation_strength = coherence_score * ln(total_quantity_sold + 1);
\* the record of the cluster {A, B} of the example has coherence_score 0.8
\* (= 4/5), total_quantity_sold 30 and strength 0.8 * ln(31), with
\* ln(31) = 3.433987...
C16_StrengthIsCoherenceTimesLog ==
    Scored =>
        \A i \in DOMAIN Val(result.value) :
            LET rec == Val(result.value)[i]
                members == MembersOf(Val(clusters), rec.cluster_id)
            IN  /\ (\E r \in Range(Val(rg_product_info)) : r.StockCode \in members) =>
                       /\ rec.total_quantity_sold = QuantityOf(Val(rg_product_info), members)
                       /\ rec.recommendation_strength =
                              [coef |-> rec.coherence_score,
                               arg |-> rec.total_quantity_sold + 1]
                /\ members = {1, 2} =>
                       /\ rec.coherence_score = Q(8, 10)
                       /\ rec.total_quantity_sold = 30
                       /\ rec.recommendation_strength = [coef |-> Q(8, 10), arg |-> 31]
                       /\ FactorMicro(rec.recommendation_strength) = 3433987

\* The record of the cluster {A, B} of the example is returned.
C16_Witness ==
    /\ Scored
    /\ \E i \in DOMAIN Val(result.value) :
          /\ MembersOf(Val(clusters), Val(result.value)[i].cluster_id) = {1, 2}
          /\ Val(similarity_matrix).values[1][2] = Q(8, 10)
          /\ Val(result.value)[i].total_quantity_sold = 30
          /\ Val(result.value)[i].recommendation_strength.arg = 31


-----------------------------------------------------------------------------
(* Properties of the clustering parameters.                                *)

\* C17: when perform_clustering is called with max_cluster_size = m, no
\* cluster of the returned table has more than m members.
C17_ClustersWithinMaxSize ==
    (Clustered /\ result.args.max_cluster_size # None) =>
        \A id \in Range(ClusterColumn(Val(result.value))) :
            Len(ClusterRows(Val(result.value), id)) <= Val(result.args.max_cluster_size)


\* C18: the cluster count the heuristic chooses is non-decreasing in the
\* product count: no smaller product count gets a larger cluster count.
C18_HeuristicNonDecreasing ==
    result.op = "_determine_optimal_clusters" =>
        \A n1 \in 1..result.args.n_products :
            _determine_optimal_clusters(n1) <= Val(result.value)


\* The number of members of each cluster of a table.
ClusterSizes(table) ==
    {Len(ClusterRows(table, id)) : id \in Range(ClusterColumn(table))}

-----------------------------------------------------------------------------
(* Properties of the size window.                                          *)

\* The ids of the clusters of a table whose member count is in the window.
InWindow(table, min_cluster_size, max_cluster_size) ==
    {id \in Range(ClusterColumn(table)) :
        /\ Cardinality(MembersOf(table, id)) >= min_cluster_size
        /\ Cardinality(MembersOf(table, id)) <= max_cluster_size}

\* C20: generate_recommendations returns, whenever clusters are stored; the
\* records it returns have pairwise distinct cluster ids, all of clusters in
\* the window [min_cluster_size, max_cluster_size]; their number is top_n or
\* the number of clusters in the window, whichever is less, so that before
\* the truncation there is exactly one record for each cluster in the
\* window; with top_n not below that number the ids returned are exactly the
\* ids in the window.
C20_OneRecordPerClusterInWindow ==
    /\ (result.op = "generate_recommendations" /\ clusters # None) => result.status = "ok"
    /\ Scored =>
          LET R == Val(result.value)
              window == InWindow(Val(clusters), result.args.min_cluster_size,
                                 result.args.max_cluster_size)
          IN  /\ \A i \in DOMAIN R : \A j \in DOMAIN R :
                     i # j => R[i].cluster_id # R[j].cluster_id
              /\ \A i \in DOMAIN R : R[i].cluster_id \in window
              /\ Len(R) = Min({result.args.top_n, Cardinality(window)})
              /\ result.args.top_n >= Cardinality(window) =>
                     {R[i].cluster_id : i \in DOMAIN R} = window

\* Three products in a cluster of two and a cluster of one, window [2, 100],
\* top_n = 3: one record, of the cluster of two, the other cluster left out.
C20_Witness ==
    /\ Scored
    /\ result.args.top_n = 3
    /\ result.args.min_cluster_size = 2
    /\ result.args.max_cluster_size = 100
    /\ ClusterSizes(Val(clusters)) = {1, 2}
    /\ Len(Val(result.value)) = 1
    /\ Cardinality(MembersOf(Val(clusters), Val(result.value)[1].cluster_id)) = 2


-----------------------------------------------------------------------------
(* Properties of the records built from the product metadata.              *)

\* The row of the metadata table for product p: None when the table is unset
\* or has no row for p.
MetadataOf(pinfo, p) ==
    IF pinfo = None THEN None
    ELSE LET rows == SelectSeq(Val(pinfo), LAMBDA r : r.StockCode = p)
         IN  IF rows = <<>> THEN None ELSE Some(rows[1])

\* C21: the products list of every returned recommendation has one entry
\* per member of the cluster, in the order of the cluster table; the entry of
\* a member the product metadata has carries its description and total
\* quantity, the entry of a member it lacks (no table set, or no row for the
\* member) carries "N/A" and 0.
C21_OneProductEntryPerMember ==
    Scored =>
        \A i \in DOMAIN Val(result.value) :
            LET rec == Val(result.value)[i]
                rows == ClusterRows(Val(clusters), rec.cluster_id)
            IN  /\ Len(rec.products) = Len(rows)
                /\ \A k \in DOMAIN rows :
                      /\ k \in DOMAIN rec.products
                      /\ rec.products[k].StockCode = rows[k].StockCode
                      /\ LET meta == MetadataOf(rg_product_info, rows[k].StockCode)
                         IN  IF meta = None
                             THEN /\ rec.products[k].Description = "N/A"
                                  /\ rec.products[k].Quantity = 0
                             ELSE /\ rec.products[k].Description = Val(meta).Description
                                  /\ rec.products[k].Quantity = Val(meta).TotalQuantity


\* generate_recommendations of the scorer itself has returned.
ScoredDirect == result.op = "rg.generate_recommendations" /\ result.status = "ok"

\* The members of a cluster that have a row in the metadata table.
FoundMembers(pinfo, table, cluster_id) ==
    {p \in MembersOf(table, cluster_id) : MetadataOf(pinfo, p) # None}

\* C22: total_quantity_sold of every returned recommendation is the sum of
\* the total quantities of the members of its cluster that the product
\* metadata has, 0 when the metadata is unset or has none of the members;
\* in that case recommendation_strength is the coherence_score itself, and
\* otherwise coherence_score * ln(total_quantity_sold + 1).
C22_TotalQuantityFromMetadata ==
    ScoredDirect =>
        \A i \in DOMAIN Val(result.value) :
            LET rec == Val(result.value)[i]
                found == FoundMembers(rg_product_info, Val(clusters), rec.cluster_id)
            IN  IF found = {}
                THEN /\ rec.total_quantity_sold = 0
                     /\ rec.recommendation_strength = [coef |-> rec.coherence_score, arg |-> 0]
                ELSE /\ rec.total_quantity_sold = QuantityOf(Val(rg_product_info), found)
                     /\ rec.recommendation_strength =
                            [coef |-> rec.coherence_score, arg |-> rec.total_quantity_sold + 1]

\* A cluster of two members with coherence above 0 scored with a metadata
\* table that has neither of them: the strength is the coherence.
C22_Witness ==
    /\ ScoredDirect
    /\ rg_product_info # None
    /\ \E i \in DOMAIN Val(result.value) :
          LET rec == Val(result.value)[i]
          IN  /\ Cardinality(MembersOf(Val(clusters), rec.cluster_id)) = 2
              /\ FoundMembers(rg_product_info, Val(clusters), rec.cluster_id) = {}
              /\ rec.coherence_score # QZero
              /\ rec.total_quantity_sold = 0


-----------------------------------------------------------------------------
(* Properties of the persistence hook.                                     *)

\* C23: a generate_recommendations call of the scorer that returns hands
\* the delegate one list, the list it returns, when save_to_db is true and a
\* handler is passed, and does not call it otherwise; a call that raises
\* does not call it; the list returned is the top_n slice of the sorted
\* candidates whether the delegate was called or not and whatever it
\* returned.
C23_DelegateGetsReturnedSlice ==
    [][result'.op = "rg.generate_recommendations" =>
          IF result'.status = "ok"
          THEN /\ db_saved' = IF result'.args.save_to_db /\ result'.args.db_handler
                              THEN Append(db_saved, Val(result'.value))
                              ELSE db_saved
               /\ clusters # None
               /\ result'.value =
                     Some(TopSlice(SortByStrength(Candidates(Val(clusters),
                                                             result'.args.min_cluster_size,
                                                             result'.args.max_cluster_size)),
                                   result'.args.top_n))
          ELSE db_saved' = db_saved]_vars

\* A save that failed: the delegate got the one record of a top_n = 1 slice
\* of two candidates, and that record was returned.
C23_Witness ==
    /\ ScoredDirect
    /\ result.warnings = <<"SaveFailed">>
    /\ result.args.top_n = 1
    /\ result.args.min_cluster_size = 1
    /\ Cardinality(Range(ClusterColumn(Val(clusters)))) >= 2
    /\ Len(Val(result.value)) = 1
    /\ db_saved = <<Val(result.value)>>


-----------------------------------------------------------------------------
(* Properties of a failed load.                                            *)

\* C24: while no table is loaded (df is None: nothing was loaded yet, or the
\* last load_data returned None), every stage call fails.  df changes only
\* in load_data, so a stage outcome seen with df = None is the outcome of a
\* call made with df = None.
C24_StagesFailAfterFailedLoad ==
    (df = None /\ result.op \in {"create_market_baskets", "calculate_similarity_matrix",
                                 "perform_clustering", "generate_recommendations"})
        => result.status = "raised"


-----------------------------------------------------------------------------
(* Properties of the similarity queries.                                   *)

\* The similarity of products p and q in the stored matrix.
StoredSimilarity(p, q) == SimilarityOf(Val(similarity_matrix), p, q)

\* C25: get_most_similar_products(p, k) for p in the index returns at most
\* k entries, each of another product of the index with its similarity to
\* p, no product twice and never p; the similarities do not increase along
\* the list; every product of the index that is neither p nor returned has
\* a similarity to p no greater than each one returned.  For p not in the
\* index the call raises and returns nothing.
C25_MostSimilarProducts ==
    result.op = "get_most_similar_products" =>
        LET p == result.args.product
            index == Range(Val(similarity_matrix).index)
        IN  IF p \in index
            THEN /\ result.status = "ok"
                 /\ LET R == Val(result.value)
                        returned == {R[k].product : k \in DOMAIN R}
                    IN  /\ Len(R) <= result.args.top_n
                        /\ p \notin returned
                        /\ returned \subseteq index
                        /\ Cardinality(returned) = Len(R)
                        /\ \A k \in DOMAIN R :
                              R[k].similarity = StoredSimilarity(R[k].product, p)
                        /\ \A a \in DOMAIN R : \A b \in DOMAIN R :
                              a < b => QLeq(R[b].similarity, R[a].similarity)
                        /\ \A q \in index \ (returned \cup {p}) : \A k \in DOMAIN R :
                              QLeq(StoredSimilarity(q, p), R[k].similarity)
            ELSE result.status = "raised" /\ result.value = None

\* Of two other products one is returned and the one left out has a
\* smaller similarity.
C25_Witness ==
    /\ result.op = "get_most_similar_products"
    /\ result.status = "ok"
    /\ result.args.top_n = 1
    /\ Len(Val(result.value)) = 1
    /\ \E q \in Range(Val(similarity_matrix).index) \ {result.args.product} :
          QLess(StoredSimilarity(q, result.args.product), Val(result.value)[1].similarity)

\* C26: get_similarity_statistics returns statistics of all the entries
\* above the diagonal: total_pairs is n(n-1)/2 for the n products of the
\* index, min_similarity the least similarity of two distinct products,
\* high_similarity_pairs the number of pairs with similarity above 1/2.
C26_StatisticsOverAllPairs ==
    (result.op = "get_similarity_statistics" /\ Len(Val(similarity_matrix).index) >= 2) =>
        LET index == Val(similarity_matrix).index
            n == Len(index)
            pairs == {pr \in (1..n) \X (1..n) : pr[1] < pr[2]}
            value(pr) == Val(similarity_matrix).values[pr[1]][pr[2]]
        IN  /\ result.status = "ok"
            /\ Val(result.value).total_pairs = (n * (n - 1)) \div 2
            /\ \A pr \in pairs : QLeq(Val(result.value).min_similarity, value(pr))
            /\ \E pr \in pairs : Val(result.value).min_similarity = value(pr)
            /\ Val(result.value).high_similarity_pairs =
                  Cardinality({pr \in pairs : QLess(Q(1, 2), value(pr))})


-----------------------------------------------------------------------------
(* Properties of the lift metric.                                          *)

\* lift = P(both) / (P(i) * P(j)) over the reals, 0 when a product has no
\* basket.
ExactLift(bm) ==
    LET sum1 == Cardinality(ColumnRows(bm, 1))
        sum2 == Cardinality(ColumnRows(bm, 2))
        both == Cardinality(ColumnRows(bm, 1) \cap ColumnRows(bm, 2))
    IN  IF sum1 = 0 \/ sum2 = 0 THEN QZero ELSE Q(both * Len(bm.rows), sum1 * sum2)

\* C27: the lift similarity computed for a pair is 0 when the lift is 0,
\* exactly 0.5 when the lift is 1, exactly 1 when the lift is 6 or more,
\* between 0 and 1 otherwise, and the same with either product as prod1.
C27_LiftSimilarity ==
    result.op = "_calculate_lift_similarity" =>
        LET bm == result.args.bm
            v == Val(result.value)
        IN  /\ ExactLift(bm) = QZero => v = FZero
            /\ ExactLift(bm) = QOne => v = FHalf
            /\ QLeq(Q(6, 1), ExactLift(bm)) => v = FOne
            /\ FLeqOne(v)
            /\ v = LiftPair64(bm, 2, 1)


-----------------------------------------------------------------------------
(* Properties of the two coherence computations.                           *)

\* What ClusteringAnalyzer.calculate_cluster_coherence returns for a
\* cluster id in the current state.
AnalyzerCoherence(cluster_id) ==
    LET rows == ClusterRows(Val(clusters), cluster_id)
    IN  Coherence(Val(ca_similarity_matrix), [k \in DOMAIN rows |-> rows[k].StockCode])

\* C28: the coherence_score of every recommendation returned is the value
\* calculate_cluster_coherence returns for the same cluster id.
C28_ScorerAndAnalyzerCoherenceAgree ==
    Scored =>
        \A i \in DOMAIN Val(result.value) :
            Val(result.value)[i].coherence_score
                = AnalyzerCoherence(Val(result.value)[i].cluster_id)


-----------------------------------------------------------------------------
(* Properties of the explanation.                                          *)

\* C29: in every recommendation returned, the explanation states a total
\* of sales only if total_quantity_sold was computed from metadata (the
\* scorer's product_info has a row for a member of the cluster), and the
\* total it states is total_quantity_sold.
C29_ExplanationStatesTotalQuantity ==
    (Scored \/ ScoredDirect) =>
        \A i \in DOMAIN Val(result.value) :
            LET rec == Val(result.value)[i]
            IN  rec.explanation.total_sales # None =>
                    /\ FoundMembers(rg_product_info, Val(clusters), rec.cluster_id) # {}
                    /\ Val(rec.explanation.total_sales) = rec.total_quantity_sold

\* C30: the stage calls of two requests are never interleaved on the one
\* recommender instance: a handler makes a stage call only while every
\* other request is either not started or answered; and the recommendations
\* of a successful response are the top_n slice computed from the table that
\* request's own load_data returned, with that request's min_support,
\* n_clusters, max_cluster_size and top_n.
StageCallOf(r) ==
    /\ handlers[r].pc \in StagePositions
    /\ handlers'[r] # handlers[r]

ComputedFromOwnRequest(r) ==
    LET request == handlers[r].request
        d == Val(handlers[r].df)
        bm == BasketMatrixOf(d, request.min_support)
    IN  /\ handlers[r].df # None
        /\ df = handlers[r].df
        /\ rg_product_info = Some(create_product_info(d))
        /\ basket_matrix = Some(bm)
        /\ similarity_matrix \in {Some(out.matrix) :
                                     out \in {o \in SimilarityOutcomes(bm, "jaccard") : o.ok}}
        /\ clusters \in {Some(t) : t \in ClusterTables(Val(similarity_matrix),
                                                       create_product_info(d),
                                                       Some(request.n_clusters),
                                                       "complete", None)}
        /\ Val(handlers'[r].response).recommendations =
              Some(TopSlice(SortByStrength(Candidates(Val(clusters), 2,
                                                      request.max_cluster_size)),
                            request.top_n))

C30_RunsNeverOverlap ==
    [][\A r \in 1..MaxRequests :
          /\ StageCallOf(r) =>
                \A q \in (1..MaxRequests) \ {r} : handlers[q].pc \in {"pending", "responded"}
          /\ (StageCallOf(r) /\ handlers'[r].response # None
                             /\ Val(handlers'[r].response).success)
                => ComputedFromOwnRequest(r)]_vars

\* Two requests were in flight together, loaded different tables and both
\* were answered with recommendations.
C30_Witness ==
    /\ \A r \in 1..MaxRequests :
          /\ handlers[r].pc = "responded"
          /\ Val(handlers[r].response).success
          /\ Val(handlers[r].response).recommendations # Some(<<>>)
    /\ handlers[1].df # handlers[2].df

=============================================================================
